---- MODULE Spec2Model ----
(***************************************************************************)
(* Model of the fraud-detection dashboard script                           *)
(* (src/dashboard/transaction-test.js): the mock fraud scorer, the         *)
(* checkTransaction handler with its /predict call and fallback, and the   *)
(* transaction history kept in localStorage.                               *)
(*                                                                         *)
(* Numbers.  A JavaScript number is a record [nan, v]: NaN is what         *)
(* parseInt / parseFloat return for an empty field, and every comparison   *)
(* with NaN is false.  Amounts are whole currency units.  Probabilities    *)
(* and risk scores are fixed point, 10000 standing for 1.0; a              *)
(* Math.random() draw is a number of thousandths in 0..999, i.e. a value   *)
(* of [0, 1), and the threshold of every "Math.random() > p" is given in   *)
(* thousandths too.                                                        *)
(***************************************************************************)
EXTENDS Integers, Sequences, FiniteSets, TLC

VARIABLES
    scoreInput,     \* the formData handed to the scorer on its own
    verdict,        \* what generateEnhancedMockPrediction returned for it
    scored,         \* whether the scorer has been called on scoreInput
    baseDraw,       \* the baseline draw of that call
    history,        \* localStorage["transactionHistory"], parsed
    calls,          \* the checkTransaction calls in flight: id -> locals
    started,        \* how many checkTransaction calls have been made
    finished,       \* ids of the calls whose handler has returned
    checkBtn,       \* the .check-transaction-btn element
    resultDiv,      \* the #transactionResult element
    requests,       \* POST /predict requests sent so far
    lastAlert,      \* text of the last alert() shown
    now,            \* Date.now()
    saves,          \* how many records have been written to the history
    lastSaved,      \* the record of the latest write
    clears,         \* how many times the history was cleared
    download,       \* the file of the last downloadTransactionHistory
    liveStats,      \* whether the page has the live statistics elements
    tests,          \* how many times test7_mockTransaction has run
    lastForm,       \* the form fields read by the latest checkTransaction
    console,        \* the last line a test helper wrote with console.log
    chat,           \* the chat panel: its messages and the /chat calls in flight
    storage,        \* the user's keys of localStorage
    session,        \* the login page's latest submit and the sign-out in flight
    profile,        \* the inputs of the profile form
    upload,         \* the CSV file handed to processCSVFile and what came of it
    column          \* a column's values handed to inferDataType, and its answer

vars == <<scoreInput, verdict, scored, baseDraw, history, calls, started, finished,
          checkBtn, resultDiv, requests, lastAlert, now, saves, lastSaved, clears,
          download, liveStats, tests, lastForm, console, upload, column,
          chat, storage, session, profile>>

analysisVars == <<upload, column>>

sessionVars == <<chat, storage, session, profile>>

scoreVars == <<scoreInput, verdict, scored, baseDraw>>

pageVars == <<history, calls, started, finished, checkBtn, resultDiv, requests,
              lastAlert, now, saves, lastSaved, clears, download, tests, lastForm,
              console, sessionVars>>

\* ------------------------------------------------------------------------
\* JavaScript values
\* ------------------------------------------------------------------------
NaN == [nan |-> TRUE, v |-> 0]

Num(n) == [nan |-> FALSE, v |-> n]

Gt(x, k) == (~x.nan) /\ x.v > k

Lt(x, k) == (~x.nan) /\ x.v < k

Le(x, k) == (~x.nan) /\ x.v <= k

\* !x for a number: NaN and 0 are falsy
FalsyNum(x) == x.nan \/ x.v = 0

\* !s for a string
FalsyStr(s) == s = ""

Min2(a, b) == IF a < b THEN a ELSE b

Max2(a, b) == IF a > b THEN a ELSE b

\* ------------------------------------------------------------------------
\* The mock fraud scorer
\* ------------------------------------------------------------------------
AmountThreshold == 10000

NewAccountDays == 30

MobileThreshold == 5000

RiskFloor == 500

RiskCeiling == 9500

\* Math.random() * 0.3 + 0.7
RandomBaseline(r) == 3 * r + 7000

\* Math.min(0.95, Math.max(0.05, riskScore)), without the clamp
NormalizeRiskUnclamped(riskScore) == riskScore

\* Math.min(0.95, Math.max(0.05, riskScore))
NormalizeRisk(riskScore) == Min2(RiskCeiling, Max2(RiskFloor, riskScore))

\* Math.random() > p, p given in thousandths
DrawAbove(r, p) == r > p

\* the amount rule with >= in place of >
ApplyAmountRuleInclusive(s, formData, d) ==
    IF (~formData.transaction_amount.nan) /\ formData.transaction_amount.v >= AmountThreshold
    THEN [isFraud |-> DrawAbove(d.r1, 300),
          riskScore |-> s.riskScore + 2000,
          rulesTriggered |-> Append(s.rulesTriggered, "Amount exceeds threshold")]
    ELSE s

\* if (formData.transaction_amount > 10000) { ... }
ApplyAmountRule(s, formData, d) ==
    IF Gt(formData.transaction_amount, AmountThreshold)
    THEN [isFraud |-> DrawAbove(d.r1, 300),
          riskScore |-> s.riskScore + 2000,
          rulesTriggered |-> Append(s.rulesTriggered, "Amount exceeds threshold")]
    ELSE s

\* the new-account rule with its draw taken outside the if
ApplyNewAccountRuleDrawsAlways(s, formData, d) ==
    IF Lt(formData.account_age_days, NewAccountDays)
    THEN [isFraud |-> s.isFraud \/ DrawAbove(d.r2, 600),
          riskScore |-> s.riskScore + 1500,
          rulesTriggered |-> Append(s.rulesTriggered, "New account with limited history")]
    ELSE [s EXCEPT !.isFraud = s.isFraud \/ DrawAbove(d.r2, 600)]

\* if (formData.account_age_days < 30) { ... }
ApplyNewAccountRule(s, formData, d) ==
    IF Lt(formData.account_age_days, NewAccountDays)
    THEN [isFraud |-> s.isFraud \/ DrawAbove(d.r2, 600),
          riskScore |-> s.riskScore + 1500,
          rulesTriggered |-> Append(s.rulesTriggered, "New account with limited history")]
    ELSE s

\* the KYC rule with the risk increment subtracted
ApplyKycRuleLowers(s, formData, d) ==
    IF ~formData.kyc_verified
    THEN [isFraud |-> s.isFraud \/ DrawAbove(d.r3, 500),
          riskScore |-> s.riskScore - 1000,
          rulesTriggered |-> Append(s.rulesTriggered, "KYC verification pending")]
    ELSE s

\* if (!formData.kyc_verified) { ... }
ApplyKycRule(s, formData, d) ==
    IF ~formData.kyc_verified
    THEN [isFraud |-> s.isFraud \/ DrawAbove(d.r3, 500),
          riskScore |-> s.riskScore + 1000,
          rulesTriggered |-> Append(s.rulesTriggered, "KYC verification pending")]
    ELSE s

\* if (formData.channel === "mobile" && formData.transaction_amount > 5000) { ... }
ApplyMobileRule(s, formData, d) ==
    IF formData.channel = "mobile" /\ Gt(formData.transaction_amount, MobileThreshold)
    THEN [isFraud |-> s.isFraud \/ DrawAbove(d.r4, 400),
          riskScore |-> s.riskScore + 1000,
          rulesTriggered |-> Append(s.rulesTriggered, "High mobile transaction")]
    ELSE s

\* the value of reading past the end of an array
UndefinedExplanation == [type |-> "undefined", template |-> 0, text |-> <<>>]

\* the two pools of three template strings, with the phrases each template
\* chooses from the form data
Explanations(formData) ==
    [fraud |->
       << <<IF Gt(formData.transaction_amount, AmountThreshold)
               THEN "unusually high amount" ELSE "suspicious timing",
            IF Lt(formData.account_age_days, NewAccountDays)
               THEN "new account activity" ELSE "unverified channel usage">>,
          <<IF formData.kyc_verified THEN "KYC verified but " ELSE "",
            formData.channel>>,
          <<IF Lt(formData.account_age_days, 7) THEN "very new" ELSE "relatively new",
            formData.channel>> >>,
     legitimate |->
       << <<IF formData.kyc_verified THEN "KYC verified" ELSE "standard verification">>,
          <<"typical customer behavior">>,
          <<formData.channel>> >>]

\* an index drawn over one more than the pool's length
ExplanationIndexPastEnd(r, length) == (r * (length + 1)) \div 1000

\* Math.floor(Math.random() * explanations[type].length)
ExplanationIndex(r, length) == (r * length) \div 1000

\* explanations[type][index], undefined past the end of the pool
PickExplanation(formData, type, index) ==
    LET pool == Explanations(formData)[type]
    IN IF index + 1 \in DOMAIN pool
       THEN [type |-> type, template |-> index, text |-> pool[index + 1]]
       ELSE UndefinedExplanation

GenerateLLMExplanation(formData, isFraud, riskScore, r) ==
    LET type == IF isFraud THEN "fraud" ELSE "legitimate"
    IN PickExplanation(formData, type,
                         ExplanationIndex(r, Len(Explanations(formData)[type])))

GenerateEnhancedMockPrediction(formData, d) ==
    LET s0 == [isFraud |-> FALSE,
               riskScore |-> RandomBaseline(d.base),
               rulesTriggered |-> <<>>]
        s1 == ApplyAmountRule(s0, formData, d)
        s2 == ApplyNewAccountRule(s1, formData, d)
        s3 == ApplyKycRule(s2, formData, d)
        s4 == ApplyMobileRule(s3, formData, d)
        riskScore == NormalizeRisk(s4.riskScore)
    IN [is_fraud |-> s4.isFraud,
        prediction |-> IF s4.isFraud THEN 1 ELSE 0,
        fraud |-> s4.isFraud,
        risk_score |-> riskScore,
        confidence |-> riskScore,
        rules_triggered |-> s4.rulesTriggered,
        llm_explanation |-> GenerateLLMExplanation(formData, s4.isFraud, riskScore, d.e)]

\* ------------------------------------------------------------------------
\* The transaction form
\* ------------------------------------------------------------------------
Channels == {"domestic", "international", "online", "atm", "mobile"}

SampleTimestamp == "2025-11-01T03:00"

\* a formData object
FormData(customer, age, amount, channel, kyc, timestamp) ==
    [customer_id |-> customer,
     account_age_days |-> age,
     transaction_amount |-> amount,
     channel |-> channel,
     kyc_verified |-> kyc,
     timestamp |-> timestamp]

\* ------------------------------------------------------------------------
\* The scorer on its own: any input, any outcome of the random draws
\* ------------------------------------------------------------------------
ScoreAmounts == {NaN} \cup {Num(n) : n \in {-100, 0, 5000, 5001, 10000, 10001, 75000}}

ScoreAges == {NaN} \cup {Num(n) : n \in {0, 5, 29, 30, 365}}

ScoreInputs ==
    {FormData("CUST_1", age, amount, channel, kyc, SampleTimestamp) :
        age \in ScoreAges, amount \in ScoreAmounts,
        channel \in Channels, kyc \in BOOLEAN}

\* outcomes of Math.random(): both ends and both sides of threshold p
DrawsAround(p) == {0, p, p + 1, 999}

\* one draw per Math.random() call site of the scorer
ScoreDraws ==
    [base : {0, 500, 834, 999},
     r1 : DrawsAround(300),
     r2 : DrawsAround(600),
     r3 : DrawsAround(500),
     r4 : DrawsAround(400),
     e : {0, 334, 667, 999}]

NoDraws == [base |-> 0, r1 |-> 0, r2 |-> 0, r3 |-> 0, r4 |-> 0, e |-> 0]

NoVerdict ==
    [is_fraud |-> FALSE, prediction |-> 0, fraud |-> FALSE, risk_score |-> 0,
     confidence |-> 0, rules_triggered |-> <<>>,
     llm_explanation |-> UndefinedExplanation]

\* the page before anything has happened on it
PageStart ==
    /\ history = <<>>
    /\ calls = [x \in {} |-> 0]
    /\ started = 0
    /\ finished = {}
    /\ checkBtn = [disabled |-> FALSE, label |-> "Check Transaction"]
    /\ resultDiv = [shown |-> FALSE, call |-> 0, isFraud |-> FALSE, riskScore |-> 0,
                    result |-> NoVerdict]
    /\ requests = 0
    /\ lastAlert = ""
    /\ now = 0
    /\ saves = 0
    /\ lastSaved = <<>>
    /\ clears = 0
    /\ download = <<>>
    /\ tests = 0
    /\ lastForm = <<>>
    /\ console = [helper |-> "none", text |-> "", removed |-> 0]
    /\ chat = [messages |-> <<>>, pending |-> {}, asked |-> 0, sent |-> 0,
               binding |-> "unknown"]
    /\ storage = [key \in {} |-> <<>>]
    /\ session = [last |-> <<>>, alert |-> "", pinError |-> FALSE, loading |-> FALSE,
                  redirect |-> FALSE, signOut |-> "none", location |-> "here"]
    /\ profile = [loaded |-> FALSE, entered |-> <<>>]

\* no file has been chosen and no column typed
AnalysisIdle ==
    /\ upload = [phase |-> "idle"]
    /\ column = [inferred |-> FALSE]

ScoreInit ==
    /\ scoreInput \in ScoreInputs
    /\ verdict = NoVerdict
    /\ scored = FALSE
    /\ baseDraw = 0
    /\ PageStart
    /\ AnalysisIdle
    /\ liveStats = TRUE

\* a call of generateEnhancedMockPrediction(scoreInput)
Score ==
    /\ ~scored
    /\ \E d \in ScoreDraws :
          /\ verdict' = GenerateEnhancedMockPrediction(scoreInput, d)
          /\ baseDraw' = d.base
    /\ scored' = TRUE
    /\ UNCHANGED <<scoreInput, pageVars, analysisVars, liveStats>>

ScoreNext == Score

ScoreSpec == ScoreInit /\ [][ScoreNext]_vars

\* ---- the claims about the scorer ----------------------------------------
Range(seq) == {seq[i] : i \in DOMAIN seq}

RuleOrder ==
    <<"Amount exceeds threshold", "New account with limited history",
      "KYC verification pending", "High mobile transaction">>

\* the condition the specification attaches to each rule
RuleHolds(rule, f) ==
    CASE rule = "Amount exceeds threshold" ->
            (~f.transaction_amount.nan) /\ f.transaction_amount.v > 10000
      [] rule = "New account with limited history" ->
            (~f.account_age_days.nan) /\ f.account_age_days.v < 30
      [] rule = "KYC verification pending" -> ~f.kyc_verified
      [] rule = "High mobile transaction" ->
            f.channel = "mobile" /\ (~f.transaction_amount.nan)
               /\ f.transaction_amount.v > 5000

ExpectedRules(f) == SelectSeq(RuleOrder, LAMBDA rule : RuleHolds(rule, f))

ExampleInput ==
    FormData("CUST_1", Num(5), Num(75000), "international", FALSE, SampleTimestamp)

\* C1: whatever the input and the draws, the risk_score returned by
\* generateEnhancedMockPrediction lies in [0.05, 0.95].
C1_RiskScoreInRange ==
    scored => (verdict.risk_score >= 500 /\ verdict.risk_score <= 9500)

\* C1 witness: an input that triggers all four rules was scored and its raw
\* score, above 0.95, came back as 0.95.
C1_Witness ==
    /\ scored
    /\ Len(verdict.rules_triggered) = 4
    /\ verdict.risk_score = 9500

\* C2: rules_triggered is exactly the rules whose condition holds, in the
\* fixed order, whatever the draws; four conditions give four rules, and the
\* example input gives the first three rules and not the fourth.
C2_RulesTriggered ==
    scored =>
      /\ verdict.rules_triggered = ExpectedRules(scoreInput)
      /\ (\A i \in 1..4 : RuleHolds(RuleOrder[i], scoreInput))
            => Len(verdict.rules_triggered) = 4
      /\ scoreInput = ExampleInput
            => verdict.rules_triggered = SubSeq(RuleOrder, 1, 3)

\* C2 witness: the example input {75000, KYC false, age 5, international}
\* was scored.
C2_Witness ==
    /\ scored
    /\ scoreInput = ExampleInput
    /\ Len(verdict.rules_triggered) = 3

\* C9: for an amount that is zero or negative the scorer returns a complete
\* verdict: is_fraud, risk_score, rules_triggered and llm_explanation are
\* all there.
C9_VerdictForNonPositiveAmount ==
    (scored /\ (~scoreInput.transaction_amount.nan)
            /\ scoreInput.transaction_amount.v <= 0) =>
      /\ verdict.is_fraud \in BOOLEAN
      /\ verdict.risk_score \in 0..10000
      /\ Range(verdict.rules_triggered) \subseteq Range(RuleOrder)
      /\ verdict.llm_explanation.type = (IF verdict.is_fraud THEN "fraud" ELSE "legitimate")
      /\ verdict.llm_explanation.text # <<>>

\* C9 witness: a negative amount was scored, and came back flagged as fraud.
C9_Witness ==
    /\ scored
    /\ scoreInput.transaction_amount = Num(-100)
    /\ verdict.is_fraud
    /\ verdict.llm_explanation.type = "fraud"

\* the score of input g under the baseline draw of the call in the state
RiskUnderSameBaseline(g) ==
    GenerateEnhancedMockPrediction(g, [NoDraws EXCEPT !.base = baseDraw])

\* C10: for one and the same baseline draw, an input whose rules include
\* those of another input never gets the lower risk_score; in particular
\* all four rules score at least as high as none.
C10_RiskMonotone ==
    scored =>
      \A g \in ScoreInputs :
         LET other == RiskUnderSameBaseline(g)
         IN Range(other.rules_triggered) \subseteq Range(verdict.rules_triggered)
               => other.risk_score <= verdict.risk_score

\* C10 witness: an input with all four rules was scored under the lowest
\* baseline, where an input with no rule scores strictly less.
C10_Witness ==
    /\ scored
    /\ Len(verdict.rules_triggered) = 4
    /\ baseDraw = 0
    /\ \E g \in ScoreInputs :
          /\ RiskUnderSameBaseline(g).rules_triggered = <<>>
          /\ RiskUnderSameBaseline(g).risk_score < verdict.risk_score

\* ------------------------------------------------------------------------
\* The page: checkTransaction, the history, the download
\* ------------------------------------------------------------------------
MaxCalls == 2

MaxTime == 1

MaxClears == 1

MaxTests == 1

MaxValidated == 1

LongCalls == 101

\* if (history.length > 100) of the earlier saveToTransactionHistory
HistoryCap == 100

\* the text of a numeric form field: empty, or the digits of n
EmptyField == [empty |-> TRUE, n |-> 0]

Field(n) == [empty |-> FALSE, n |-> n]

\* parseInt(text): NaN for an empty field
ParseInt(field) == IF field.empty THEN NaN ELSE Num(field.n)

\* parseFloat(text): NaN for an empty field
ParseFloat(field) == IF field.empty THEN NaN ELSE Num(field.n)

\* s.trim(), for the strings the forms below use
Trim(s) == IF s \in {"", " ", "   "} THEN "" ELSE s

\* the values of the six form elements
Form(customer, age, amount, channel, kyc, timestamp) ==
    [customerId |-> customer, accountAge |-> age, transactionAmount |-> amount,
     channel |-> channel, kycVerified |-> kyc, transactionDateTime |-> timestamp]

\* const formData = { ... } of checkTransaction
ReadForm(form) ==
    FormData(form.customerId,
             ParseInt(form.accountAge),
             ParseFloat(form.transactionAmount),
             form.channel,
             form.kycVerified = "Yes",
             form.transactionDateTime)

\* validateEnhancedTransactionForm without its amount check
ValidationAlertNoAmountCheck(formData) ==
    IF FalsyStr(formData.customer_id) \/ Trim(formData.customer_id) = ""
    THEN "Please enter a valid Customer ID"
    ELSE IF FalsyNum(formData.account_age_days) \/ Lt(formData.account_age_days, 0)
    THEN "Please enter a valid account age"
    ELSE IF FalsyStr(formData.channel)
    THEN "Please select a channel"
    ELSE IF FalsyStr(formData.timestamp)
    THEN "Please select transaction date and time"
    ELSE ""

\* the alert validateEnhancedTransactionForm shows, "" when it shows none
ValidationAlert(formData) ==
    IF FalsyStr(formData.customer_id) \/ Trim(formData.customer_id) = ""
    THEN "Please enter a valid Customer ID"
    ELSE IF FalsyNum(formData.transaction_amount) \/ Le(formData.transaction_amount, 0)
    THEN "Please enter a valid transaction amount"
    ELSE IF FalsyNum(formData.account_age_days) \/ Lt(formData.account_age_days, 0)
    THEN "Please enter a valid account age"
    ELSE IF FalsyStr(formData.channel)
    THEN "Please select a channel"
    ELSE IF FalsyStr(formData.timestamp)
    THEN "Please select transaction date and time"
    ELSE ""

ValidateEnhancedTransactionForm(formData) == ValidationAlert(formData) = ""

\* ---- results and what the handlers do with them -------------------------
\* the body of a /predict response: JSON null, or an object
JsonNull == [null |-> TRUE, value |-> NoVerdict]

JsonValue(v) == [null |-> FALSE, value |-> v]

BackendExplanation == [type |-> "backend", template |-> 0, text |-> <<"from the model">>]

\* a verdict of the remote service, with every field
BackendFraud ==
    [is_fraud |-> TRUE, prediction |-> 1, fraud |-> TRUE, risk_score |-> 9100,
     confidence |-> 9100, rules_triggered |-> <<"Amount exceeds threshold">>,
     llm_explanation |-> BackendExplanation]

\* a verdict of the remote service that names its fields the other way:
\* prediction and confidence, no is_fraud, no risk_score
BackendLegitimate ==
    [is_fraud |-> FALSE, prediction |-> 0, fraud |-> FALSE, risk_score |-> 0,
     confidence |-> 1200, rules_triggered |-> <<>>,
     llm_explanation |-> BackendExplanation]

ResponseBodies == {JsonNull, JsonValue(BackendFraud), JsonValue(BackendLegitimate)}

\* result.is_fraud || result.prediction === 1 || result.fraud === true
IsFraudOf(result) == result.is_fraud \/ result.prediction = 1 \/ result.fraud = TRUE

\* a || b on numbers, an absent field being 0
OrNum(a, b) == IF a # 0 THEN a ELSE b

\* what a handler has done so far to the page, and whether it has thrown
Here ==
    [history |-> history, resultDiv |-> resultDiv, saves |-> saves,
     lastSaved |-> lastSaved, threw |-> FALSE]

\* displayEnhancedTransactionResult(result, formData); reading a field of
\* null throws
DisplayEnhancedTransactionResult(st, body, formData, c) ==
    IF body.null
    THEN [st EXCEPT !.threw = TRUE]
    ELSE LET result == body.value
             isFraud == IsFraudOf(result)
         IN [st EXCEPT !.resultDiv =
                [shown |-> TRUE, call |-> c, isFraud |-> isFraud,
                 riskScore |-> OrNum(OrNum(result.risk_score, result.confidence),
                                     IF isFraud THEN 8500 ELSE 1500),
                 result |-> result]]

\* JSON.parse(localStorage.getItem("some other key") || "[]")
ReadHistoryWrongKey(st) == <<>>

\* JSON.parse(localStorage.getItem("transactionHistory") || "[]")
ReadHistory(st) == st.history

\* history.push(transactionRecord)
Push(h, transactionRecord) == Append(h, transactionRecord)

\* history.unshift(transactionRecord)
Unshift(h, transactionRecord) == <<transactionRecord>> \o h

\* the transactionRecord of saveToEnhancedTransactionHistory; call is not a
\* field of the record: it remembers which checkTransaction call saved it
EnhancedRecord(formData, result, c) ==
    [id |-> [prefix |-> "", n |-> now],
     timestamp |-> now,
     customer_id |-> formData.customer_id,
     transaction_amount |-> formData.transaction_amount,
     account_age_days |-> formData.account_age_days,
     channel |-> formData.channel,
     kyc_verified |-> formData.kyc_verified,
     is_fraud |-> IsFraudOf(result),
     risk_score |-> OrNum(result.risk_score, result.confidence),
     confidence |-> result.confidence,
     status |-> IF IsFraudOf(result) THEN "Fraud" ELSE "Legitimate",
     llm_explanation |-> result.llm_explanation,
     rules_triggered |-> result.rules_triggered,
     call |-> c]

\* one write of the whole list to localStorage
Store(st, h, transactionRecord) ==
    [st EXCEPT !.history = h, !.saves = @ + 1, !.lastSaved = <<transactionRecord>>]

\* saveToEnhancedTransactionHistory(formData, result)
SaveToEnhancedTransactionHistory(st, formData, result, c) ==
    LET transactionRecord == EnhancedRecord(formData, result, c)
    IN Store(st, Unshift(ReadHistory(st), transactionRecord), transactionRecord)

\* updateFraudVisualization(): updateLiveStatistics sets textContent of four
\* elements it does not test for null; the two charts test theirs
UpdateFraudVisualization(st) ==
    IF liveStats THEN st ELSE [st EXCEPT !.threw = TRUE]

\* the statements of the try block after the response body has arrived
TryBlock(st, body, formData, c) ==
    LET shown == DisplayEnhancedTransactionResult(st, body, formData, c)
        saved == IF shown.threw THEN shown
                 ELSE SaveToEnhancedTransactionHistory(shown, formData, body.value, c)
    IN IF saved.threw THEN saved ELSE UpdateFraudVisualization(saved)

\* the catch block without its save
CatchBlockDisplayOnly(st, formData, d, c) ==
    LET mockResult == GenerateEnhancedMockPrediction(formData, d)
    IN UpdateFraudVisualization(
          DisplayEnhancedTransactionResult([st EXCEPT !.threw = FALSE],
                                           JsonValue(mockResult), formData, c))

\* the catch block
CatchBlock(st, formData, d, c) ==
    LET mockResult == GenerateEnhancedMockPrediction(formData, d)
        shown == DisplayEnhancedTransactionResult([st EXCEPT !.threw = FALSE],
                                                  JsonValue(mockResult), formData, c)
        saved == SaveToEnhancedTransactionHistory(shown, formData, mockResult, c)
    IN UpdateFraudVisualization(saved)

\* try { ... } catch (error) { ... }
TryCatch(st, body, formData, d, c) ==
    LET tried == TryBlock(st, body, formData, c)
    IN IF tried.threw THEN CatchBlock(tried, formData, d, c) ELSE tried

\* the handler of call c returns: what it did reaches the page, and the
\* finally block resets the button
Return(c, st) ==
    /\ history' = st.history
    /\ resultDiv' = st.resultDiv
    /\ saves' = st.saves
    /\ lastSaved' = st.lastSaved
    /\ checkBtn' = [disabled |-> FALSE, label |-> "Check Transaction"]
    /\ calls' = [x \in DOMAIN calls \ {c} |-> calls[x]]
    /\ finished' = finished \cup {c}

\* ---- the forms and draws the page is run with --------------------------
QuietForm == Form("CUST_1", Field(365), Field(5000), "domestic", "Yes", SampleTimestamp)

RiskyForm == Form("CUST_2", Field(5), Field(75000), "international", "No", SampleTimestamp)

ValidForms == {QuietForm, RiskyForm}

\* QuietForm with one field made invalid
InvalidForms ==
    {[QuietForm EXCEPT !.customerId = s] : s \in {"", "   "}}
    \cup {[QuietForm EXCEPT !.transactionAmount = a] : a \in {EmptyField, Field(0), Field(-5)}}
    \cup {[QuietForm EXCEPT !.accountAge = a] : a \in {EmptyField, Field(-1)}}
    \cup {[QuietForm EXCEPT !.channel = ""], [QuietForm EXCEPT !.transactionDateTime = ""]}

\* the forms of the checks, one of an account opened today among them
Forms == ValidForms \cup InvalidForms \cup {[QuietForm EXCEPT !.accountAge = Field(0)]}

\* the draws of a fallback on the page: both ends of [0, 1)
PageDraws == [base : {0, 999}, r1 : {0, 999}, r2 : {0}, r3 : {0}, r4 : {0}, e : {0}]

\* ---- the handlers -------------------------------------------------------
\* checkTransaction() up to its first await, with at most limit validated
\* calls in a run
CheckTransactionUpTo(form, limit) ==
    LET formData == ReadForm(form)
        c == started + 1
    IN /\ lastForm' = <<form>>
       /\ IF ~ValidateEnhancedTransactionForm(formData)
          THEN /\ lastAlert' = ValidationAlert(formData)
               /\ UNCHANGED <<history, calls, started, finished, checkBtn, resultDiv,
                              requests, now, saves, lastSaved, clears, download, tests>>
          ELSE /\ started < limit
               /\ started' = c
               /\ checkBtn' = [disabled |-> TRUE, label |-> "Analyzing..."]
               /\ requests' = requests + 1
               /\ calls' = [x \in DOMAIN calls \cup {c} |->
                              IF x = c THEN [formData |-> formData, pc |-> "fetch"]
                                       ELSE calls[x]]
               /\ UNCHANGED <<history, finished, resultDiv, lastAlert, now, saves,
                              lastSaved, clears, download, tests>>
       /\ UNCHANGED <<scoreVars, analysisVars, sessionVars, console, liveStats>>

CheckTransaction(form) == CheckTransactionUpTo(form, MaxCalls)

\* await fetch(...) of call c settles: it rejects, or resolves with a
\* response that is OK or not
FetchSettlesWith(c, outcome, d) ==
    /\ c \in DOMAIN calls
    /\ calls[c].pc = "fetch"
    /\ IF outcome = "ok"
       THEN /\ calls' = [calls EXCEPT ![c].pc = "json"]
            /\ UNCHANGED <<history, resultDiv, saves, lastSaved, checkBtn, finished>>
       ELSE \E st \in {CatchBlock(Here, calls[c].formData, d, c)} : Return(c, st)
    /\ UNCHANGED <<scoreVars, analysisVars, sessionVars, console, liveStats, started, requests, lastAlert, now, clears,
                   download, tests, lastForm>>

FetchSettles(c) ==
    \E outcome \in {"reject", "not ok", "ok"}, d \in PageDraws :
       FetchSettlesWith(c, outcome, d)

\* await response.json() of call c settles: the body does not parse, or it
\* is the value body
JsonSettlesWith(c, parses, body, d) ==
    /\ c \in DOMAIN calls
    /\ calls[c].pc = "json"
    /\ \E st \in {IF parses THEN TryCatch(Here, body, calls[c].formData, d, c)
                             ELSE CatchBlock(Here, calls[c].formData, d, c)} :
          Return(c, st)
    /\ UNCHANGED <<scoreVars, analysisVars, sessionVars, console, liveStats, started, requests, lastAlert, now, clears,
                   download, tests, lastForm>>

JsonSettles(c) ==
    \E d \in PageDraws :
       \/ JsonSettlesWith(c, FALSE, JsonNull, d)
       \/ \E body \in ResponseBodies : JsonSettlesWith(c, TRUE, body, d)

\* ---- test7_mockTransaction and the later saveToTransactionHistory ------
\* mockFormData of test7_mockTransaction: it has no customer_id
MockFormData == FormData("", Num(365), Num(5000), "TRANSFER", TRUE, SampleTimestamp)

\* the transactionRecord of saveToTransactionHistory (the later of the two
\* declarations, which is the one in force); the fields it does not set
\* have their absent values
PlainRecord(formData, result) ==
    [id |-> [prefix |-> "T/", n |-> now],
     timestamp |-> now,
     customer_id |-> formData.customer_id,
     transaction_amount |-> formData.transaction_amount,
     account_age_days |-> formData.account_age_days,
     channel |-> formData.channel,
     kyc_verified |-> formData.kyc_verified,
     is_fraud |-> IsFraudOf(result),
     risk_score |-> 0,
     confidence |-> 0,
     status |-> IF IsFraudOf(result) THEN "Fraud" ELSE "Legitimate",
     llm_explanation |-> UndefinedExplanation,
     rules_triggered |-> <<>>,
     call |-> 0]

\* saveToTransactionHistory(formData, result)
SaveToTransactionHistory(st, formData, result) ==
    LET transactionRecord == PlainRecord(formData, result)
    IN Store(st, Unshift(ReadHistory(st), transactionRecord), transactionRecord)

\* test7_mockTransaction(): it passes (mockFormData, mockResult) to the
\* display, whose parameters are (result, formData), so the display reads
\* its verdict from an object that has none of the verdict's fields
Test7MockTransaction ==
    /\ tests < MaxTests
    /\ tests' = tests + 1
    /\ LET mockResult == [NoVerdict EXCEPT !.risk_score = 25]
           shown == DisplayEnhancedTransactionResult(Here, JsonValue(NoVerdict),
                                                     MockFormData, 0)
           saved == SaveToTransactionHistory(shown, MockFormData, mockResult)
       IN /\ history' = saved.history
          /\ resultDiv' = saved.resultDiv
          /\ saves' = saved.saves
          /\ lastSaved' = saved.lastSaved
    /\ console' = [helper |-> "test7", text |-> "Result displayed and saved to history",
                   removed |-> 0]
    /\ UNCHANGED <<scoreVars, analysisVars, sessionVars, liveStats, calls, started, finished, checkBtn, requests,
                   lastAlert, now, clears, download, lastForm>>

\* the test of test8_clearTestData: the id, as text, starts with "test-"
\* (an id of 0 is falsy and is never a test id)
IsTestId(t) == t.id.prefix = "test-"

\* test8_clearTestData(): the records with a test id are taken out of the
\* stored history, which is written back only when there was one
Test8ClearTestData ==
    /\ LET testTransactions == SelectSeq(history, IsTestId)
           cleaned == SelectSeq(history, LAMBDA t : ~IsTestId(t))
       IN IF Len(testTransactions) > 0
          THEN /\ history' = cleaned
               /\ console' = [helper |-> "test8", text |-> "Removed test transactions",
                              removed |-> Len(testTransactions)]
          ELSE /\ UNCHANGED history
               /\ console' = [helper |-> "test8", text |-> "No test transactions to remove",
                              removed |-> 0]
    /\ UNCHANGED <<scoreVars, analysisVars, sessionVars, liveStats, calls, started, finished, checkBtn, resultDiv,
                   requests, lastAlert, now, saves, lastSaved, clears, download, tests,
                   lastForm>>

\* clearTransactionHistory(), the user confirming
ClearTransactionHistory ==
    /\ clears < MaxClears
    /\ clears' = clears + 1
    /\ history' = <<>>
    /\ lastAlert' = "All transaction history has been cleared."
    /\ UNCHANGED <<scoreVars, analysisVars, sessionVars, console, liveStats, calls, started, finished, checkBtn, resultDiv,
                   requests, now, saves, lastSaved, download, tests, lastForm>>

\* ---- downloadTransactionHistory ----------------------------------------
CsvHeaders ==
    <<"Customer ID", "Transaction Amount", "KYC Verified", "Account Age", "Channel",
      "Date & Time", "Status">>

\* n.toFixed(2) of a whole number
ToFixed2(n) == ToString(n) \o ".00"

\* String(id)
IdString(id) == id.prefix \o ToString(id.n)

\* new Date(timestamp).toLocaleString()
LocaleString(timestamp) == "date " \o ToString(timestamp)

\* one row of csvData
CsvRow(transaction) ==
    <<IF FalsyStr(transaction.customer_id) THEN IdString(transaction.id)
                                           ELSE transaction.customer_id,
      "$" \o ToFixed2(IF FalsyNum(transaction.transaction_amount) THEN 0
                      ELSE transaction.transaction_amount.v),
      IF transaction.kyc_verified THEN "Yes" ELSE "No",
      (IF FalsyNum(transaction.account_age_days) THEN "undefined"
       ELSE ToString(transaction.account_age_days.v)) \o " days",
      transaction.channel,
      LocaleString(transaction.timestamp),
      IF transaction.is_fraud THEN "Fraud" ELSE "Legitimate">>

RECURSIVE JoinComma(_)
\* cells.join(",")
JoinComma(cells) ==
    IF Len(cells) = 0 THEN ""
    ELSE IF Len(cells) = 1 THEN cells[1]
    ELSE cells[1] \o "," \o JoinComma(Tail(cells))

\* the cells joined bare, without the quotes around each
CsvLineUnquoted(row) == JoinComma(row)

\* row.map((cell) => `"${cell}"`).join(",")
CsvLine(row) == JoinComma([i \in DOMAIN row |-> "\"" \o row[i] \o "\""])

\* the blob: the byte-order mark and the lines that "\n" joins
CsvFile(h) ==
    [bom |-> TRUE,
     lines |-> <<CsvLine(CsvHeaders)>> \o [i \in DOMAIN h |-> CsvLine(CsvRow(h[i]))]]

DownloadTransactionHistory ==
    /\ IF Len(history) = 0
       THEN /\ lastAlert' = "No transaction history available to download."
            /\ UNCHANGED download
       ELSE /\ download' = <<CsvFile(history)>>
            /\ UNCHANGED lastAlert
    /\ UNCHANGED <<scoreVars, analysisVars, sessionVars, console, liveStats, history, calls, started, finished, checkBtn,
                   resultDiv, requests, now, saves, lastSaved, clears, tests, lastForm>>

\* a millisecond passes
Tick ==
    /\ now < MaxTime
    /\ now' = now + 1
    /\ UNCHANGED <<scoreVars, analysisVars, sessionVars, console, liveStats, history, calls, started, finished, checkBtn,
                   resultDiv, requests, lastAlert, saves, lastSaved, clears, download,
                   tests, lastForm>>

\* ---- the page's specification ------------------------------------------
Init ==
    /\ scoreInput = ExampleInput
    /\ verdict = NoVerdict
    /\ scored = FALSE
    /\ baseDraw = 0
    /\ PageStart
    /\ AnalysisIdle
    /\ liveStats \in BOOLEAN

\* checks of valid forms, overlapping
Next ==
    \/ \E form \in ValidForms : CheckTransaction(form)
    \/ \E c \in 1..MaxCalls : FetchSettles(c)
    \/ \E c \in 1..MaxCalls : JsonSettles(c)

Spec == Init /\ [][Next]_vars

\* a network promise settles: of the calls that wait for fetch or for
\* response.json(), one gets its answer or its rejection
SomePromiseSettles == \E c \in 1..MaxCalls : FetchSettles(c) \/ JsonSettles(c)

\* the network answers or fails; it does not leave every promise pending
\* for ever
FairNext ==
    \/ CheckTransaction(RiskyForm)
    \/ \E c \in 1..MaxCalls : FetchSettles(c)
    \/ \E c \in 1..MaxCalls : JsonSettles(c)

FairSpec == Init /\ [][FairNext]_vars /\ WF_vars(SomePromiseSettles)

\* checks one after the other, with the test helper, the clear button and
\* the clock
HistoryNext ==
    \/ \E form \in ValidForms :
          DOMAIN calls = {} /\ CheckTransactionUpTo(form, MaxValidated)
    \/ \E c \in 1..MaxValidated : FetchSettles(c)
    \/ \E c \in 1..MaxValidated : JsonSettles(c)
    \/ Test7MockTransaction
    \/ ClearTransactionHistory
    \/ Tick

HistorySpec == Init /\ [][HistoryNext]_vars

\* the test helpers beside the checks: test7 saves, test8 cleans up
CleanupNext ==
    \/ \E form \in ValidForms :
          DOMAIN calls = {} /\ CheckTransactionUpTo(form, MaxValidated)
    \/ \E c \in 1..MaxValidated : FetchSettles(c)
    \/ \E c \in 1..MaxValidated : JsonSettles(c)
    \/ Test7MockTransaction
    \/ Test8ClearTestData
    \/ Tick

CleanupSpec == Init /\ [][CleanupNext]_vars

\* one check at a time, of any form, valid or not
ValidationNext ==
    \/ \E form \in Forms : CheckTransactionUpTo(form, MaxValidated)
    \/ \E c \in 1..MaxValidated : FetchSettles(c)
    \/ \E c \in 1..MaxValidated : JsonSettles(c)

ValidationSpec == Init /\ [][ValidationNext]_vars

\* checks and downloads
DownloadNext ==
    \/ \E form \in ValidForms : CheckTransaction(form)
    \/ \E c \in 1..MaxCalls : FetchSettles(c)
    \/ \E c \in 1..MaxCalls : JsonSettles(c)
    \/ DownloadTransactionHistory

DownloadSpec == Init /\ [][DownloadNext]_vars

\* the backend unreachable, one risky check after the other
LongNext ==
    \/ DOMAIN calls = {} /\ CheckTransactionUpTo(RiskyForm, LongCalls)
    \/ \E c \in 1..LongCalls : FetchSettlesWith(c, "reject", NoDraws)

LongSpec == Init /\ [][LongNext]_vars

\* ---- the claims about the page -----------------------------------------
\* the records of h that call c saved
RecordsOf(h, c) == {i \in DOMAIN h : h[i].call = c}

\* some draw for which verdict v is the scorer's verdict on formData
IsMockVerdict(v, formData) ==
    \E d \in PageDraws : v = GenerateEnhancedMockPrediction(formData, d)

\* C3: a validated check whose /predict call rejects or is not OK gets its
\* verdict from generateEnhancedMockPrediction, displays it and saves it;
\* and every validated check ends, with a verdict displayed and saved,
\* whatever the network did.  (A call leaves calls only by returning, so
\* "again and again no call is in flight" says that every call returns.)
C3_EveryCheckEndsWithVerdict ==
    /\ []<>(DOMAIN calls = {})
    /\ [][\A c \in 1..MaxCalls :
            (c \in DOMAIN calls /\ c \in finished') =>
               /\ resultDiv'.shown
               /\ resultDiv'.call = c
               /\ history' # <<>>
               /\ history'[1].call = c
               /\ history'[1].is_fraud = resultDiv'.isFraud
               /\ history'[1].llm_explanation = resultDiv'.result.llm_explanation
               /\ calls[c].pc = "fetch" =>
                     /\ IsMockVerdict(resultDiv'.result, calls[c].formData)
                     /\ history'[1].risk_score = resultDiv'.result.risk_score
                     /\ Cardinality(RecordsOf(history', c)) = 1]_vars

\* C3 witness: a check has ended on the fallback, the mock verdict on display
\* and at the head of the history.
C3_Witness ==
    \E c \in finished :
       /\ resultDiv.shown
       /\ resultDiv.call = c
       /\ resultDiv.result.llm_explanation.type \in {"fraud", "legitimate"}
       /\ Len(history) = 1
       /\ history[1].call = c
       /\ history[1].llm_explanation = resultDiv.result.llm_explanation

\* C4: the stored history never holds more than 100 records.
C4_HistoryAtMost100 == Len(history) <= HistoryCap

NewestFirst(h) == \A i, j \in DOMAIN h : i < j => h[i].timestamp >= h[j].timestamp

\* C5: a save puts its record at index 0 and leaves the records that were
\* stored as they were and in their order, so the list is newest first and
\* history[0] is the latest saved record.
C5_SavePrepends ==
    [][saves' # saves =>
         LET k == saves' - saves
         IN /\ Len(history') = Len(history) + k
            /\ SubSeq(history', k + 1, Len(history')) = history
            /\ history'[1] = lastSaved'[1]
            /\ NewestFirst(history')]_vars

\* C5 witness: saveToEnhancedTransactionHistory saved a check and, a
\* millisecond later, saveToTransactionHistory saved on top of it.
C5_Witness ==
    /\ Len(history) >= 2
    /\ history[1] = lastSaved[1]
    /\ history[1].id.prefix = "T/"
    /\ history[2].id.prefix = ""
    /\ history[1].timestamp > history[2].timestamp

\* the forms the specification calls invalid: empty customer id, missing or
\* non-positive amount, missing or negative account age, no channel, no
\* timestamp
ListedInvalid(form) ==
    \/ form.customerId \in {"", " ", "   "}
    \/ form.transactionAmount.empty
    \/ form.transactionAmount.n <= 0
    \/ form.accountAge.empty
    \/ form.accountAge.n < 0
    \/ form.channel = ""
    \/ form.transactionDateTime = ""

\* C6: a check of a form that fails validation writes nothing: no /predict
\* request, the history, the displayed result and the button as they were.
C6_InvalidFormWritesNothing ==
    [][(lastForm' # lastForm /\ ListedInvalid(lastForm'[1])) =>
          /\ lastAlert' # ""
          /\ UNCHANGED <<requests, history, resultDiv, checkBtn, calls, started, saves>>]_vars

\* C6 witness: while a validated check waits for /predict, a check of an
\* invalid form was refused: still one request, the button still disabled.
C6_Witness ==
    /\ lastForm # <<>>
    /\ ListedInvalid(lastForm[1])
    /\ lastAlert = "Please enter a valid transaction amount"
    /\ requests = 1
    /\ DOMAIN calls = {1}
    /\ checkBtn.disabled

\* C7: with checks in flight at the same time, every write of the history
\* builds on the list as it then is, so no record is lost: the list holds
\* every record written, and a record of every check that has ended.
C7_NoLostUpdate ==
    /\ Len(history) = saves
    /\ \A c \in finished : RecordsOf(history, c) # {}

\* C7 witness: two checks overlapped (the second ended first) and both have
\* their record.
C7_Witness ==
    /\ finished = {1, 2}
    /\ history[1].call = 1
    /\ history[Len(history)].call = 2

\* C8: from an empty history and with no clear, a download after n checks
\* have ended has exactly n data rows after the header row.
C8_DownloadRowsEqualChecks ==
    [][(download' # download /\ DOMAIN calls = {}) =>
          Len(download'[1].lines) = 1 + Cardinality(finished)]_vars

\* ------------------------------------------------------------------------
\* The dataset upload.  A string is the sequence of its characters, so
\* that split, trim, replace, toLowerCase, includes, Number and parseFloat
\* are computed on the text itself.
\* ------------------------------------------------------------------------
WhiteSpace == {" ", "\t", "\r", "\n"}

RECURSIVE TrimStart(_)
TrimStart(s) ==
    IF s # <<>> /\ Head(s) \in WhiteSpace THEN TrimStart(Tail(s)) ELSE s

RECURSIVE TrimEnd(_)
TrimEnd(s) ==
    IF s # <<>> /\ s[Len(s)] \in WhiteSpace
    THEN TrimEnd(SubSeq(s, 1, Len(s) - 1))
    ELSE s

\* s.trim()
TrimText(s) == TrimEnd(TrimStart(s))

\* s.replace(/"/g, "")
RemoveQuotes(s) == SelectSeq(s, LAMBDA ch : ch # "\"")

RECURSIVE Split(_, _)
\* s.split(sep): the pieces between the separators, at least one piece
Split(s, sep) ==
    LET i == IF \E k \in DOMAIN s : s[k] = sep
             THEN CHOOSE k \in DOMAIN s : s[k] = sep /\ \A j \in 1..(k - 1) : s[j] # sep
             ELSE 0
    IN IF i = 0 THEN <<s>>
       ELSE <<SubSeq(s, 1, i - 1)>> \o Split(SubSeq(s, i + 1, Len(s)), sep)

\* s.toLowerCase()
ToLowerCase(s) ==
    LET Uppers == <<"A", "B", "C", "D", "E", "F", "G", "H", "I", "J", "K", "L", "M",
                    "N", "O", "P", "Q", "R", "S", "T", "U", "V", "W", "X", "Y", "Z">>
        Lowers == <<"a", "b", "c", "d", "e", "f", "g", "h", "i", "j", "k", "l", "m",
                    "n", "o", "p", "q", "r", "s", "t", "u", "v", "w", "x", "y", "z">>
    IN [i \in DOMAIN s |->
           IF \E k \in DOMAIN Uppers : Uppers[k] = s[i]
           THEN Lowers[CHOOSE k \in DOMAIN Uppers : Uppers[k] = s[i]]
           ELSE s[i]]

\* s.includes(part)
Includes(s, part) ==
    \E i \in 0..(Len(s) - Len(part)) : SubSeq(s, i + 1, i + Len(part)) = part

Digits == <<"0", "1", "2", "3", "4", "5", "6", "7", "8", "9">>

IsDigit(ch) == \E k \in DOMAIN Digits : Digits[k] = ch

RECURSIVE DigitsValue(_)
DigitsValue(s) ==
    IF s = <<>> THEN 0
    ELSE 10 * DigitsValue(SubSeq(s, 1, Len(s) - 1))
            + (CHOOSE k \in DOMAIN Digits : Digits[k] = s[Len(s)]) - 1

RECURSIVE DigitPrefix(_)
DigitPrefix(s) ==
    IF s # <<>> /\ IsDigit(Head(s)) THEN <<Head(s)>> \o DigitPrefix(Tail(s))
    ELSE <<>>

\* Number(s) as isNaN(s) converts a string: white space around the number
\* is dropped, the empty string is 0, a signed run of digits is its value
\* and any other text is NaN.  The texts of the model have no ".", no
\* exponent and no radix prefix.
ToNumber(s) ==
    LET t == TrimText(s)
        signed == t # <<>> /\ Head(t) \in {"-", "+"}
        body == IF signed THEN Tail(t) ELSE t
    IN IF t = <<>> THEN Num(0)
       ELSE IF body # <<>> /\ DigitPrefix(body) = body
            THEN Num(IF Head(t) = "-" THEN 0 - DigitsValue(body)
                                      ELSE DigitsValue(body))
            ELSE NaN

\* isNaN(s)
IsNaNText(s) == ToNumber(s).nan

\* parseFloat(s): leading white space is dropped and the longest signed run
\* of digits at the start is the value, whatever follows it
ParseFloatText(s) ==
    LET t == TrimStart(s)
        signed == t # <<>> /\ Head(t) \in {"-", "+"}
        run == DigitPrefix(IF signed THEN Tail(t) ELSE t)
    IN IF run = <<>> THEN NaN
       ELSE Num(IF Head(t) = "-" THEN 0 - DigitsValue(run) ELSE DigitsValue(run))

\* v && v.trim() !== ""
NonEmptyText(v) == v # <<>> /\ TrimText(v) # <<>>

\* ---- parseCSV ------------------------------------------------------------
\* line.split(",").map((v) => v.trim().replace(/"/g, ""))
CleanFields(line) ==
    LET fields == Split(line, ",")
    IN [k \in DOMAIN fields |-> RemoveQuotes(TrimText(fields[k]))]

\* a row that takes every field from the line's first field
RowOfFirstField(headers, values) ==
    [h \in Range(headers) |-> IF values = <<>> THEN <<>> ELSE values[1]]

\* headers.forEach((header, index) => { row[header] = values[index] || "" }):
\* an object keyed by the header texts; of two headers with one text the
\* later assignment stays
RowOf(headers, values) ==
    [h \in Range(headers) |->
        LET index == CHOOSE k \in DOMAIN headers :
                        headers[k] = h /\ \A j \in DOMAIN headers : headers[j] = h => j <= k
        IN IF index \in DOMAIN values THEN values[index] ELSE <<>>]

\* what a call that throws returns to its caller
Thrown == [threw |-> TRUE]

\* parseCSV(csvText); lines[0] is undefined when no line is left, and
\* undefined.split throws a TypeError
ParseCSV(csvText) ==
    LET lines == SelectSeq(Split(csvText, "\n"), LAMBDA line : TrimText(line) # <<>>)
    IN IF lines = <<>> THEN Thrown
       ELSE LET headers == CleanFields(lines[1])
            IN [threw |-> FALSE,
                headers |-> headers,
                data |-> [i \in 1..(Len(lines) - 1) |->
                             RowOf(headers, CleanFields(lines[i + 1]))],
                rawText |-> csvText]

\* ---- the data-quality metrics -------------------------------------------
\* data.map((row) => row[header]).filter((v) => v && v.trim() !== "")
ColumnValues(dataset, header) ==
    SelectSeq([i \in DOMAIN dataset.data |-> dataset.data[i][header]], NonEmptyText)

\* the number of members of seq that test holds of
CountOf(seq, test(_)) == Len(SelectSeq(seq, test))

\* Math.round((part / whole) * 100); 0 / 0 is NaN, and so is anything
\* computed from NaN
RoundPercent(part, whole) ==
    IF part.nan \/ whole = 0 THEN NaN
    ELSE Num((200 * part.v + whole) \div (2 * whole))

\* ((part / whole) * 100).toFixed(2), in hundredths of a percent; toFixed
\* of NaN is the text "NaN"
PercentToFixed2(part, whole) ==
    IF whole = 0 THEN NaN
    ELSE Num((20000 * part + whole) \div (2 * whole))

RECURSIVE SumOf(_)
SumOf(seq) == IF seq = <<>> THEN 0 ELSE Head(seq) + SumOf(Tail(seq))

\* calculateDataConsistency(dataset)
CalculateDataConsistency(dataset) ==
    LET consistentRows ==
            CountOf(dataset.data,
                    LAMBDA row : \A k \in DOMAIN dataset.headers :
                                    NonEmptyText(row[dataset.headers[k]]))
    IN RoundPercent(Num(consistentRows), Len(dataset.data))

\* new Set(rows).length: a Set has a size and no length, so this is
\* undefined, and undefined / n is NaN
LengthOfSet(rows) == NaN

\* calculateDataUniqueness(dataset); two rows serialize to one JSON text
\* exactly when they are equal, their keys being set in one order
CalculateDataUniqueness(dataset) ==
    LET uniqueRows == LengthOfSet(dataset.data)
    IN RoundPercent(uniqueRows, Len(dataset.data))

\* displayDataQuality(dataset): the four metrics it writes
DisplayDataQuality(dataset) ==
    LET totalCells == Len(dataset.headers) * Len(dataset.data)
        emptyCells == SumOf([i \in DOMAIN dataset.data |->
                                CountOf(dataset.headers,
                                        LAMBDA h : ~NonEmptyText(dataset.data[i][h]))])
    IN [completeness |-> PercentToFixed2(totalCells - emptyCells, totalCells),
        consistency |-> CalculateDataConsistency(dataset),
        uniqueness |-> CalculateDataUniqueness(dataset),
        emptyCells |-> emptyCells]

\* ---- inferDataType ------------------------------------------------------
SampleSize == 100

DateEngines == {"strict", "lenient"}

\* !isNaN(Date.parse(v)): an ISO date (a year of four digits, a month and
\* a day of two, "-" between) parses everywhere; what a text that
\* is not in the ISO format gives is left to the engine, and a lenient
\* engine reads a run of digits as a date
DateParses(v, engine) ==
    \/ /\ Len(v) = 10
       /\ v[5] = "-" /\ v[8] = "-"
       /\ \A k \in {1, 2, 3, 4, 6, 7, 9, 10} : IsDigit(v[k])
       /\ DigitsValue(SubSeq(v, 6, 7)) \in 1..12
       /\ DigitsValue(SubSeq(v, 9, 10)) \in 1..31
    \/ engine = "lenient" /\ v # <<>> /\ DigitPrefix(v) = v

\* inferDataType with >= in place of >
InferDataTypeInclusive(values, engine) ==
    IF Len(values) = 0 THEN "Unknown"
    ELSE LET sample == SubSeq(values, 1, Min2(SampleSize, Len(values)))
             numericCount ==
                 CountOf(sample, LAMBDA v : (~IsNaNText(v)) /\ TrimText(v) # <<>>)
             dateCount ==
                 CountOf(sample, LAMBDA v : DateParses(v, engine) /\ TrimText(v) # <<>>)
         IN IF 10 * numericCount >= 8 * Len(sample) THEN "Numeric"
            ELSE IF 10 * dateCount >= 8 * Len(sample) THEN "Date"
            ELSE "Text"

\* inferDataType(values); count / sample.length > 0.8 is compared in tenths
InferDataType(values, engine) ==
    IF Len(values) = 0 THEN "Unknown"
    ELSE LET sample == SubSeq(values, 1, Min2(SampleSize, Len(values)))
             numericCount ==
                 CountOf(sample, LAMBDA v : (~IsNaNText(v)) /\ TrimText(v) # <<>>)
             dateCount ==
                 CountOf(sample, LAMBDA v : DateParses(v, engine) /\ TrimText(v) # <<>>)
         IN IF 10 * numericCount > 8 * Len(sample) THEN "Numeric"
            ELSE IF 10 * dateCount > 8 * Len(sample) THEN "Date"
            ELSE "Text"

\* displayColumnAnalysis that keeps the empty cells among the values
DisplayColumnAnalysisUnfiltered(dataset, engine) ==
    [k \in DOMAIN dataset.headers |->
        LET values == [i \in DOMAIN dataset.data |-> dataset.data[i][dataset.headers[k]]]
        IN [header |-> dataset.headers[k],
            uniqueValues |-> Cardinality(Range(values)),
            dataType |-> InferDataType(values, engine),
            totalValues |-> Len(values)]]

\* displayColumnAnalysis(dataset): columnInfo
DisplayColumnAnalysis(dataset, engine) ==
    [k \in DOMAIN dataset.headers |->
        LET values == ColumnValues(dataset, dataset.headers[k])
        IN [header |-> dataset.headers[k],
            uniqueValues |-> Cardinality(Range(values)),
            dataType |-> InferDataType(values, engine),
            totalValues |-> Len(values)]]

\* ---- the correlation matrix ---------------------------------------------
RECURSIVE Gcd(_, _)
Gcd(a, b) == IF b = 0 THEN a ELSE Gcd(b, a % b)

\* The number numerator / Math.sqrt(radicand), kept exactly: its sign and
\* its square as a fraction in lowest terms.  The sums are whole numbers,
\* which the doubles hold exactly, and the square root of a perfect square
\* is exact, so the quotient is 1.0 exactly when sign is 1 and square is 1/1.
Quotient(numerator, radicand) ==
    LET square == numerator * numerator
        g == Gcd(square, radicand)
    IN IF numerator = 0 THEN [sign |-> 0, square |-> <<0, 1>>]
       ELSE [sign |-> IF numerator > 0 THEN 1 ELSE 0 - 1,
             square |-> <<square \div g, radicand \div g>>]

Zero == Quotient(0, 1)

One == Quotient(1, 1)

\* data.map((row) => parseFloat(row[col])).filter((v) => !isNaN(v))
ParsedValues(data, col) ==
    LET parsed == SelectSeq([i \in DOMAIN data |-> ParseFloatText(data[i][col])],
                            LAMBDA v : ~v.nan)
    IN [i \in DOMAIN parsed |-> parsed[i].v]

\* calculateCorrelation with the numerator sign dropped
CalculateCorrelationUnsigned(x, y) ==
    IF Len(x) # Len(y) \/ Len(x) = 0 THEN Zero
    ELSE LET n == Len(x)
             sumX == SumOf(x)
             sumY == SumOf(y)
             sumXY == SumOf([i \in DOMAIN x |-> x[i] * y[i]])
             sumX2 == SumOf([i \in DOMAIN x |-> x[i] * x[i]])
             sumY2 == SumOf([i \in DOMAIN y |-> y[i] * y[i]])
             numerator == sumX * sumY - n * sumXY
             radicand == (n * sumX2 - sumX * sumX) * (n * sumY2 - sumY * sumY)
         IN IF radicand = 0 THEN Zero ELSE Quotient(numerator, radicand)

\* calculateCorrelation(x, y)
CalculateCorrelation(x, y) ==
    IF Len(x) # Len(y) \/ Len(x) = 0 THEN Zero
    ELSE LET n == Len(x)
             sumX == SumOf(x)
             sumY == SumOf(y)
             sumXY == SumOf([i \in DOMAIN x |-> x[i] * y[i]])
             sumX2 == SumOf([i \in DOMAIN x |-> x[i] * x[i]])
             sumY2 == SumOf([i \in DOMAIN y |-> y[i] * y[i]])
             numerator == n * sumXY - sumX * sumY
             radicand == (n * sumX2 - sumX * sumX) * (n * sumY2 - sumY * sumY)
         IN IF radicand = 0 THEN Zero ELSE Quotient(numerator, radicand)

\* calculateCorrelationMatrix that leaves the entries below the diagonal 0
CalculateCorrelationMatrixUpper(columns, data) ==
    [i \in DOMAIN columns |->
        [j \in DOMAIN columns |->
            IF i = j THEN One
            ELSE IF j < i THEN Zero
            ELSE CalculateCorrelation(ParsedValues(data, columns[i]),
                                      ParsedValues(data, columns[j]))]]

\* calculateCorrelationMatrix(columns, data)
CalculateCorrelationMatrix(columns, data) ==
    [i \in DOMAIN columns |->
        [j \in DOMAIN columns |->
            IF i = j THEN One
            ELSE CalculateCorrelation(ParsedValues(data, columns[i]),
                                      ParsedValues(data, columns[j]))]]

\* displayCorrelationAnalysis(dataset): the table it writes over the
\* numericColumns, the headers whose first non-empty value is a number, or
\* the "Need at least 2 numeric columns" message in its place
DisplayCorrelationAnalysis(dataset) ==
    LET numericColumns ==
            SelectSeq(dataset.headers,
                      LAMBDA header :
                          LET values == ColumnValues(dataset, header)
                          IN Len(values) > 0 /\ ~IsNaNText(values[1]))
    IN IF Len(numericColumns) < 2
       THEN [table |-> FALSE, columns |-> numericColumns, matrix |-> <<>>]
       ELSE [table |-> TRUE, columns |-> numericColumns,
             matrix |-> CalculateCorrelationMatrix(numericColumns, dataset.data)]

\* ---- the fraud tally ----------------------------------------------------
\* the fraud test of displayFraudAnalysis without toLowerCase()
IsFraudMarkCaseSensitive(v) ==
    v \in {<<"1">>, <<"t", "r", "u", "e">>, <<"f", "r", "a", "u", "d">>, <<"y", "e", "s">>}

\* v.toString().toLowerCase() === "1" || ... === "true" || ... === "fraud"
\* || ... === "yes"
IsFraudMark(v) ==
    ToLowerCase(v) \in
        {<<"1">>, <<"t", "r", "u", "e">>, <<"f", "r", "a", "u", "d">>, <<"y", "e", "s">>}

\* displayFraudAnalysis(dataset): the tally of the first fraud column, or
\* the generic card; the percentages are in hundredths of a percent
DisplayFraudAnalysis(dataset) ==
    LET words == {<<"f", "r", "a", "u", "d">>,
                  <<"i", "s", "_", "f", "r", "a", "u", "d">>,
                  <<"c", "l", "a", "s", "s">>,
                  <<"t", "a", "r", "g", "e", "t">>}
        fraudColumns ==
            SelectSeq(dataset.headers,
                      LAMBDA header :
                          \E word \in words : Includes(ToLowerCase(header), word))
    IN IF Len(fraudColumns) > 0
       THEN LET fraudColumn == fraudColumns[1]
                fraudValues == ColumnValues(dataset, fraudColumn)
                fraudCount == CountOf(fraudValues, IsFraudMark)
                legitimateCount == Len(fraudValues) - fraudCount
                totalCount == Len(fraudValues)
            IN [tally |-> TRUE,
                column |-> fraudColumn,
                fraudCount |-> fraudCount,
                legitimateCount |-> legitimateCount,
                fraudPercentage |->
                    IF totalCount > 0 THEN PercentToFixed2(fraudCount, totalCount)
                    ELSE Num(0),
                legitimatePercentage |->
                    IF totalCount > 0 THEN PercentToFixed2(legitimateCount, totalCount)
                    ELSE Num(0)]
       ELSE [tally |-> FALSE, total |-> Len(dataset.data)]

\* ---- processCSVFile -----------------------------------------------------
\* performDatasetAnalysis(dataset): the sections the model keeps.  The
\* other sections (basic statistics, distribution, missing values,
\* transaction summary, spending categories) write their own containers
\* and return.
PerformDatasetAnalysis(dataset, engine) ==
    [rows |-> Len(dataset.data),
     columns |-> Len(dataset.headers),
     quality |-> DisplayDataQuality(dataset),
     columnInfo |-> DisplayColumnAnalysis(dataset, engine),
     correlation |-> DisplayCorrelationAnalysis(dataset),
     fraud |-> DisplayFraudAnalysis(dataset)]

NoReport == [rows |-> 0 - 1]

RECURSIVE Join(_, _)
\* pieces.join(sep)
Join(pieces, sep) ==
    IF pieces = <<>> THEN <<>>
    ELSE IF Len(pieces) = 1 THEN pieces[1]
    ELSE pieces[1] \o <<sep>> \o Join(Tail(pieces), sep)

\* the text of a file with the given lines of fields
CsvText(lines) == Join([i \in DOMAIN lines |-> Join(lines[i], ",")], "\n")

\* a file chosen on the page, not yet handed to processCSVFile
ChosenFile(lines) ==
    [phase |-> "chosen", source |-> lines, csvText |-> CsvText(lines), engine |-> "none",
     progress |-> FALSE, results |-> FALSE, dataset |-> Thrown, report |-> NoReport]

\* processCSVFile(file) up to reader.readAsText(file)
ProcessCSVFile ==
    /\ upload.phase = "chosen"
    /\ upload' = [upload EXCEPT !.phase = "reading", !.progress = TRUE]
    /\ UNCHANGED <<scoreVars, pageVars, column, liveStats>>

\* reader.onload, in a browser of either Date.parse: parse and analyse
\* inside the try, alert in the catch
ReaderOnload ==
    /\ upload.phase = "reading"
    /\ \E engine \in DateEngines :
       LET dataset == ParseCSV(upload.csvText)
       IN IF dataset.threw
          THEN /\ upload' = [upload EXCEPT !.phase = "failed", !.progress = FALSE]
               /\ lastAlert' = "Error processing CSV file. Please check the file format."
          ELSE /\ upload' = [upload EXCEPT !.phase = "analysed",
                                           !.engine = engine,
                                           !.progress = FALSE,
                                           !.results = TRUE,
                                           !.dataset = dataset,
                                           !.report = PerformDatasetAnalysis(dataset, engine)]
               /\ UNCHANGED lastAlert
    /\ UNCHANGED <<scoreVars, history, calls, started, finished, checkBtn, resultDiv,
                   requests, now, saves, lastSaved, clears, download, tests, lastForm,
                   console, sessionVars, column, liveStats>>

\* ---- the files of the upload specification ------------------------------
MaxDataLines == 2

NumRows == 2

MaxPoints == 3

\* the file a,b / 1,2 / 3,4 / 5,6
ExampleCsv ==
    << << <<"a">>, <<"b">> >>, << <<"1">>, <<"2">> >>,
       << <<"3">>, <<"4">> >>, << <<"5">>, <<"6">> >> >>

\* The files chosen, each as its lines of fields:
\*   blank      no line that is not blank: "", " ", "\n" and "\n \r\n";
\*   shape      a header of one or two names and up to MaxDataLines lines of
\*              zero to three fields, blank lines among them;
\*   number     columns a and b of NumRows cells: numbers, gaps and text;
\*   triple     columns a, b and c of NumRows numbers;
\*   linear     columns a and b with b = c * a + d;
\*   point      columns a and b of MaxPoints numbers each;
\*   gap        columns a and b of MaxPoints cells each, a number or nothing;
\*   fraud      a first column named id, is_Fraud or CLASS, a second named
\*              note or Target, and up to MaxDataLines rows of marks.
UploadFiles ==
    LET SeqsOf(S, lo, hi) == UNION {[1..n -> S] : n \in lo..hi}
        DigitText(n) == <<Digits[n + 1]>>
        ab == << <<"a">>, <<"b">> >>
        blank == {<< << <<>> >> >>,
                  << << <<" ">> >> >>,
                  << << <<>> >>, << <<>> >> >>,
                  << << <<>> >>, << <<" ", "\r">> >>, << <<>> >> >>}
        shapeHeaders == {<< <<"a">> >>,
                         ab,
                         << <<"a">>, <<"a">> >>,
                         << <<" ", "\"", "a", "\"">>, <<"b", " ">> >>}
        shapeLines == {<< <<>> >>,
                       << <<" ">> >>,
                       << <<"1">> >>,
                       << <<"1">>, <<>> >>,
                       << <<>>, <<"1">> >>,
                       << <<"1">>, <<"2">> >>,
                       << <<"1">>, <<"2">>, <<"3">> >>,
                       << <<" ", "x", " ">>, <<"\"", "1", "\"">> >>,
                       << <<>>, <<>>, <<>> >>}
        shape == {<<header>> \o lines :
                     header \in shapeHeaders, lines \in SeqsOf(shapeLines, 0, MaxDataLines)}
        cells == {<<>>, <<"1">>, <<"2">>, <<"x">>}
        number == {<<ab>> \o lines : lines \in SeqsOf(cells \X cells, NumRows, NumRows)}
        ones == {<<"1">>, <<"2">>}
        triple == {<< << <<"a">>, <<"b">>, <<"c">> >> >> \o lines :
                      lines \in SeqsOf(ones \X ones \X ones, NumRows, NumRows)}
        linear == {<<ab>> \o [i \in DOMAIN x |->
                                 <<DigitText(x[i]), DigitText(c * x[i] + d)>>] :
                      x \in SeqsOf(1..3, 1, MaxPoints), c \in 1..2, d \in 0..1}
        point == {<<ab>> \o [i \in DOMAIN x |-> <<DigitText(x[i]), DigitText(y[i])>>] :
                     x \in SeqsOf(1..3, MaxPoints, MaxPoints),
                     y \in SeqsOf(1..3, MaxPoints, MaxPoints)}
        gaps == {<<>>, <<"1">>, <<"2">>}
        gap == {<<ab>> \o lines : lines \in SeqsOf(gaps \X gaps, MaxPoints, MaxPoints)}
        fraudHeaders ==
            {<<h1, h2>> :
                h1 \in {<<"i", "d">>, <<"i", "s", "_", "F", "r", "a", "u", "d">>,
                        <<"C", "L", "A", "S", "S">>},
                h2 \in {<<"n", "o", "t", "e">>, <<"T", "a", "r", "g", "e", "t">>}}
        marks == {<<"1">>, <<"T", "R", "U", "E">>, <<"Y", "e", "s">>,
                  <<"f", "r", "a", "u", "d">>, <<"0">>, <<>>}
        fraud == {<<header>> \o lines :
                     header \in fraudHeaders,
                     lines \in SeqsOf(marks \X {<<"1">>, <<"n", "o">>}, 0, MaxDataLines)}
    IN blank \cup shape \cup number \cup triple \cup linear \cup point \cup gap
          \cup {ExampleCsv} \cup fraud

UploadInit ==
    /\ scoreInput = ExampleInput
    /\ verdict = NoVerdict
    /\ scored = FALSE
    /\ baseDraw = 0
    /\ PageStart
    /\ liveStats = TRUE
    /\ column = [inferred |-> FALSE]
    /\ upload \in {ChosenFile(lines) : lines \in UploadFiles}

UploadNext == ProcessCSVFile \/ ReaderOnload

UploadSpec == UploadInit /\ [][UploadNext]_vars

\* ---- the claims about the upload ----------------------------------------
\* a line of the chosen file that is not blank: more than one field, or a
\* field with something other than white space in it
IsDataLine(line) == Len(line) > 1 \/ TrimText(line[1]) # <<>>

\* the chosen file's lines that are not blank, the header line first
SourceLines == SelectSeq(upload.source, IsDataLine)

\* a field as the dataset holds it: trimmed, its double quotes dropped
Cleaned(field) == RemoveQuotes(TrimText(field))

\* C11: for a dataset with a header row and zero data rows, the
\* data-quality report shows completeness, consistency and uniqueness all
\* as 0, never NaN or undefined.
C11_ZeroRowsReportZero ==
    (upload.phase = "analysed" /\ Len(upload.dataset.data) = 0) =>
        /\ upload.report.quality.completeness = Num(0)
        /\ upload.report.quality.consistency = Num(0)
        /\ upload.report.quality.uniqueness = Num(0)

\* C12: processing a completely empty CSV file (no non-blank line at all)
\* never raises: parseCSV returns a dataset with zero rows and the analysis
\* completes with a report, not with the 'Error processing CSV file' alert.
C12_EmptyFileAnalysed ==
    (SourceLines = <<>> /\ upload.phase \notin {"chosen", "reading"}) =>
        /\ upload.phase = "analysed"
        /\ ~upload.dataset.threw
        /\ Len(upload.dataset.data) = 0
        /\ upload.report.rows = 0
        /\ lastAlert # "Error processing CSV file. Please check the file format."

\* C13: for a CSV text with a header line, parseCSV returns one row per
\* non-blank data line, in file order, and every row has exactly the
\* header's columns: the field at a header's position, the empty string
\* where the line is too short, nothing of the fields beyond the header,
\* and no exception for a wrong column count.  (Of two headers with one
\* name, the row's one column of that name holds the later one's field.)
C13_RowsAlignedToHeader ==
    (SourceLines # <<>> /\ upload.phase \notin {"chosen", "reading"}) =>
        /\ upload.phase = "analysed"
        /\ LET header == SourceLines[1]
               lines == Tail(SourceLines)
               data == upload.dataset.data
           IN /\ upload.dataset.headers = [k \in DOMAIN header |-> Cleaned(header[k])]
              /\ Len(data) = Len(lines)
              /\ \A i \in DOMAIN data :
                    /\ DOMAIN data[i] = {Cleaned(header[k]) : k \in DOMAIN header}
                    /\ \A k \in DOMAIN header :
                          (\A j \in DOMAIN header :
                              Cleaned(header[j]) = Cleaned(header[k]) => j <= k)
                          => data[i][Cleaned(header[k])] =
                                IF k \in DOMAIN lines[i] THEN Cleaned(lines[i][k])
                                ELSE <<>>

\* C13 witness: a file with two headers was parsed, one of its lines being
\* a field short and another a field long
C13_Witness ==
    /\ upload.phase = "analysed"
    /\ Len(upload.dataset.headers) = 2
    /\ \E i, j \in DOMAIN upload.dataset.data :
          /\ Len(Tail(SourceLines)[i]) = 1
          /\ Len(Tail(SourceLines)[j]) = 3

\* the analysed dataset and its report
Dataset == upload.dataset

Report == upload.report

\* the values of the column named header that are not empty, row by row
NonEmptyValues(header) ==
    SelectSeq([i \in DOMAIN Dataset.data |-> Dataset.data[i][header]],
              LAMBDA v : TrimText(v) # <<>>)

\* a numeric column in the sense of the correlation analysis: its first
\* non-empty value is a number
IsNumericColumn(header) ==
    NonEmptyValues(header) # <<>> /\ ~IsNaNText(NonEmptyValues(header)[1])

\* the table was written, over the numeric columns in header order, and is
\* symmetric with 1.0 on its diagonal
SymmetricUnitMatrix ==
    /\ Report.correlation.table
    /\ Report.correlation.columns = SelectSeq(Dataset.headers, IsNumericColumn)
    /\ LET matrix == Report.correlation.matrix
           n == Len(Report.correlation.columns)
       IN /\ DOMAIN matrix = 1..n
          /\ \A i \in 1..n : DOMAIN matrix[i] = 1..n /\ matrix[i][i] = One
          /\ \A i, j \in 1..n : matrix[i][j] = matrix[j][i]

\* C14, as claimed: for any dataset with at least one numeric column, the
\* analysis produces a correlation matrix over the numeric columns that is
\* symmetric and has 1.0 on every diagonal entry.
C14_MatrixForOneNumericColumn ==
    (upload.phase = "analysed"
        /\ \E k \in DOMAIN Dataset.headers : IsNumericColumn(Dataset.headers[k]))
    => SymmetricUnitMatrix

\* C14, amended: for any dataset with at least two numeric columns
\* (columns whose first non-empty value is a number), the analysis produces
\* a correlation matrix over the numeric columns that is symmetric and has
\* 1.0 on every diagonal entry; with fewer than two it writes no matrix.
C14_MatrixForTwoNumericColumns ==
    upload.phase = "analysed" =>
        IF Len(SelectSeq(Dataset.headers, IsNumericColumn)) >= 2
        THEN SymmetricUnitMatrix
        ELSE ~Report.correlation.table

\* C14 witness: a matrix over three columns with an entry off the diagonal
\* that is neither 0 nor 1
C14_Witness ==
    /\ upload.phase = "analysed"
    /\ Report.correlation.table
    /\ Len(Report.correlation.columns) = 3
    /\ \E i, j \in 1..3 : Report.correlation.matrix[i][j] \notin {Zero, One}

\* the chosen file has the header a,b and rows of two whole numbers each
TwoNumberColumns ==
    /\ Len(SourceLines) >= 2
    /\ SourceLines[1] = << <<"a">>, <<"b">> >>
    /\ \A i \in 2..Len(SourceLines) :
          /\ Len(SourceLines[i]) = 2
          /\ \A k \in 1..2 : SourceLines[i][k] # <<>>
                             /\ DigitPrefix(SourceLines[i][k]) = SourceLines[i][k]

\* the numbers of column k of such a file
NumbersOf(k) == [i \in 1..(Len(SourceLines) - 1) |-> DigitsValue(SourceLines[i + 1][k])]

\* y = c * x + d for some c > 0 and d: the points lie on one line that
\* rises (a constant x with a constant y among them: any c fits)
RisingLine(x, y) ==
    /\ \A i, j \in DOMAIN x :
          \/ x[i] = x[j] /\ y[i] = y[j]
          \/ (x[j] - x[i]) * (y[j] - y[i]) > 0
    /\ \A i, j, k \in DOMAIN x :
          (y[j] - y[i]) * (x[k] - x[i]) = (y[k] - y[i]) * (x[j] - x[i])

\* both columns are classified Numeric and their correlation is 1.0
BothNumericCorrelationOne ==
    /\ \A k \in 1..2 : Report.columnInfo[k].dataType = "Numeric"
    /\ Report.correlation.table
    /\ Report.correlation.matrix[1][2] = One

\* C15, as claimed: for the CSV with header a,b and rows (1,2), (3,4),
\* (5,6), both columns are classified Numeric and the correlation of a and
\* b is exactly 1.0; more generally, two numeric columns related by
\* y = c*x + d with c > 0 and no missing values get correlation 1.
C15_LinearColumnsCorrelateOne ==
    (upload.phase = "analysed" /\ TwoNumberColumns
        /\ RisingLine(NumbersOf(1), NumbersOf(2)))
    => BothNumericCorrelationOne

\* C15, amended: for the CSV with header a,b and rows (1,2), (3,4), (5,6),
\* both columns are classified Numeric and the correlation of a and b is
\* exactly 1.0; more generally, two numeric columns related by y = c*x + d
\* with c > 0, no missing values and at least two different values of x get
\* correlation 1, and a column that is constant gets correlation 0.
C15_VaryingLinearColumnsCorrelateOne ==
    (upload.phase = "analysed" /\ TwoNumberColumns
        /\ RisingLine(NumbersOf(1), NumbersOf(2)))
    => /\ \A k \in 1..2 : Report.columnInfo[k].dataType = "Numeric"
       /\ Report.correlation.table
       /\ Report.correlation.matrix[1][2] =
             IF \E i, j \in DOMAIN NumbersOf(1) : NumbersOf(1)[i] # NumbersOf(1)[j]
             THEN One ELSE Zero
       /\ upload.source = ExampleCsv => Report.correlation.matrix[1][2] = One

\* C15 witness: the file a,b / 1,2 / 3,4 / 5,6 has been analysed
C15_Witness ==
    /\ upload.phase = "analysed"
    /\ upload.source = ExampleCsv
    /\ Report.correlation.matrix[1][2] = One

\* C17: for every dataset with at least one row, the reported uniqueness
\* equals the number of distinct serialized rows divided by the row count,
\* times 100, rounded: 100 when all rows differ, 100/n when all n rows are
\* identical.
C17_UniquenessIsDistinctShare ==
    (upload.phase = "analysed" /\ Len(Dataset.data) >= 1) =>
        LET n == Len(Dataset.data)
            distinct == Cardinality({Dataset.data[i] : i \in 1..n})
        IN Report.quality.uniqueness = Num((200 * distinct + n) \div (2 * n))

\* the first header, in header order, whose lower-case text contains
\* "fraud", "class" or "target"; 0 when there is none
FirstFraudHeader ==
    LET named(k) ==
            \E word \in {<<"f", "r", "a", "u", "d">>, <<"c", "l", "a", "s", "s">>,
                         <<"t", "a", "r", "g", "e", "t">>} :
                Includes(ToLowerCase(Dataset.headers[k]), word)
    IN IF \E k \in DOMAIN Dataset.headers : named(k)
       THEN CHOOSE k \in DOMAIN Dataset.headers :
                named(k) /\ \A j \in 1..(k - 1) : ~named(j)
       ELSE 0

\* C18: displayFraudAnalysis produces a fraud-vs-legitimate tally exactly
\* when some header contains 'fraud', 'class' or 'target'
\* (case-insensitive), using the first such column in header order; a value
\* counts as fraud iff it equals 1, true, fraud or yes (case-insensitive),
\* fraud count + legitimate count is the number of non-empty values of that
\* column, and both percentages are 0 when that number is 0.
C18_FraudTally ==
    upload.phase = "analysed" =>
        /\ Report.fraud.tally <=> FirstFraudHeader # 0
        /\ FirstFraudHeader # 0 =>
              LET values == NonEmptyValues(Dataset.headers[FirstFraudHeader])
                  frauds == {i \in DOMAIN values :
                                ToLowerCase(values[i]) \in
                                    {<<"1">>, <<"t", "r", "u", "e">>,
                                     <<"f", "r", "a", "u", "d">>, <<"y", "e", "s">>}}
              IN /\ Report.fraud.column = Dataset.headers[FirstFraudHeader]
                 /\ Report.fraud.fraudCount = Cardinality(frauds)
                 /\ Report.fraud.fraudCount + Report.fraud.legitimateCount = Len(values)
                 /\ Len(values) = 0 =>
                       /\ Report.fraud.fraudPercentage = Num(0)
                       /\ Report.fraud.legitimatePercentage = Num(0)

\* C18 witness: a tally over a column named CLASS beside one named Target,
\* with one value TRUE and one value 0
C18_Witness ==
    /\ upload.phase = "analysed"
    /\ Report.fraud.tally
    /\ Dataset.headers = <<<<"C", "L", "A", "S", "S">>, <<"T", "a", "r", "g", "e", "t">>>>
    /\ Report.fraud.fraudCount = 1
    /\ Report.fraud.legitimateCount = 1
    /\ \E i \in DOMAIN Dataset.data :
          Dataset.data[i][Dataset.headers[1]] = <<"T", "R", "U", "E">>

\* ---- inferDataType on columns of its own --------------------------------
Blocks == 3

\* a value of each kind: a number, an ISO date, a word
ValueOfKind(kind) ==
    CASE kind = "number" -> <<"7">>
      [] kind = "date" -> <<"2", "0", "2", "4", "-", "0", "1", "-", "1", "5">>
      [] kind = "text" -> <<"x">>

RECURSIVE ValuesOfBlocks(_)
\* the non-empty values of a column made of blocks of equal values
ValuesOfBlocks(blocks) ==
    IF blocks = <<>> THEN <<>>
    ELSE [i \in 1..Head(blocks).count |-> ValueOfKind(Head(blocks).kind)]
             \o ValuesOfBlocks(Tail(blocks))

\* the columns typed: Blocks blocks of 0, 1, 4, 20 or 80 values of one kind
ColumnsTyped ==
    [1..Blocks -> [kind : {"number", "date", "text"}, count : {0, 1, 4, 20, 80}]]

TypeInit ==
    /\ scoreInput = ExampleInput
    /\ verdict = NoVerdict
    /\ scored = FALSE
    /\ baseDraw = 0
    /\ PageStart
    /\ liveStats = TRUE
    /\ upload = [phase |-> "idle"]
    /\ column \in {[inferred |-> FALSE, blocks |-> blocks,
                    values |-> ValuesOfBlocks(blocks), engine |-> "none",
                    dataType |-> "none"] : blocks \in ColumnsTyped}

\* inferDataType(values) as displayColumnAnalysis calls it, in a browser of
\* either Date.parse
InferColumn ==
    /\ ~column.inferred
    /\ \E engine \in DateEngines :
          column' = [column EXCEPT !.inferred = TRUE,
                                   !.engine = engine,
                                   !.dataType = InferDataType(column.values, engine)]
    /\ UNCHANGED <<scoreVars, pageVars, upload, liveStats>>

TypeNext == InferColumn

TypeSpec == TypeInit /\ [][TypeNext]_vars

RECURSIVE CountInFirst(_, _, _)
\* how many of the first limit values of the blocks are of a kind in kinds
CountInFirst(blocks, limit, kinds) ==
    IF blocks = <<>> \/ limit <= 0 THEN 0
    ELSE (IF Head(blocks).kind \in kinds THEN Min2(Head(blocks).count, limit) ELSE 0)
            + CountInFirst(Tail(blocks), limit - Head(blocks).count, kinds)

\* of the first 100 values of the typed column: how many there are, how
\* many parse as numbers and how many as dates (the browser's Date.parse
\* deciding whether a number is a date too)
Sampled == CountInFirst(column.blocks, 100, {"number", "date", "text"})

SampledNumbers == CountInFirst(column.blocks, 100, {"number"})

SampledDates ==
    CountInFirst(column.blocks, 100,
                 IF column.engine = "lenient" THEN {"number", "date"} ELSE {"date"})

\* C16, as claimed: inferDataType looks at no more than the first 100
\* non-empty values of a column and returns Numeric when at least 80% of
\* them parse as numbers (including exactly 80%), otherwise Date when at
\* least 80% parse as valid dates (including exactly 80%), otherwise Text.
C16_TypeFromEightyPercent ==
    (column.inferred /\ Sampled > 0) =>
        column.dataType =
            IF 100 * SampledNumbers >= 80 * Sampled THEN "Numeric"
            ELSE IF 100 * SampledDates >= 80 * Sampled THEN "Date"
            ELSE "Text"

\* C16, amended: inferDataType looks at no more than the first 100
\* non-empty values of a column and returns Numeric when more than 80% of
\* them parse as numbers (exactly 80% is not enough), otherwise Date when
\* more than 80% parse as valid dates, otherwise Text; for a column without
\* a non-empty value it returns Unknown.
C16_TypeFromMoreThanEightyPercent ==
    column.inferred =>
        column.dataType =
            IF Sampled = 0 THEN "Unknown"
            ELSE IF 100 * SampledNumbers > 80 * Sampled THEN "Numeric"
            ELSE IF 100 * SampledDates > 80 * Sampled THEN "Date"
            ELSE "Text"

\* C16 witness: a column of more than 100 values, 80 of its first 100
\* numbers and more than 80% of all its values numbers, was typed Text
C16_Witness ==
    /\ column.inferred
    /\ Len(column.values) > 100
    /\ SampledNumbers = 80
    /\ 100 * CountInFirst(column.blocks, Len(column.values), {"number"})
          > 80 * Len(column.values)
    /\ column.dataType = "Text"

\* ---- test8_clearTestData after test7_mockTransaction --------------------
\* the records test7_mockTransaction saved (no check made them)
SavedByTest7(t) == t.call = 0

\* C19: when test8_clearTestData runs after a record was saved from a result
\* whose transaction_id starts with "test-", as test7_mockTransaction saves
\* it, that record is gone from the stored history and every other record
\* is still there, in the same order.
C19_Test8RemovesWhatTest7Saved ==
    [][(console'.helper = "test8" /\ console.helper # "test8")
         => history' = SelectSeq(history, LAMBDA t : ~SavedByTest7(t))]_vars

\* ---- the downloaded file's form ------------------------------------------
\* seven cells, each between double quotes, a comma between two cells
QuotedLine(cells) ==
    "\"" \o cells[1] \o "\",\"" \o cells[2] \o "\",\"" \o cells[3] \o "\",\"" \o cells[4]
         \o "\",\"" \o cells[5] \o "\",\"" \o cells[6] \o "\",\"" \o cells[7] \o "\""

\* the file a download has just made starts with the byte-order mark, its
\* first line is the given header row and every line is quoted cells
\* between commas, one line for each record of the history
DownloadHasForm(headerRow) ==
    download' # download =>
        LET file == download'[1]
        IN /\ file.bom
           /\ Len(file.lines) = Len(history) + 1
           /\ file.lines[1] = QuotedLine(headerRow)
           /\ \A i \in 1..Len(history) : file.lines[i + 1] = QuotedLine(CsvRow(history[i]))

\* C20 as stated: the CSV produced by downloadTransactionHistory starts with
\* a byte-order mark, has every field wrapped in double quotes and separated
\* by commas, and its header row is exactly ID, Amount, KYC Verified,
\* Account Age, Channel, Date & Time, Status, in that order.
C20_DownloadHeaderIdAmount ==
    [][DownloadHasForm(<<"ID", "Amount", "KYC Verified", "Account Age", "Channel",
                         "Date & Time", "Status">>)]_vars

\* C20 as amended: the CSV produced by downloadTransactionHistory starts with
\* a byte-order mark, has every field wrapped in double quotes and separated
\* by commas, and its header row is exactly Customer ID, Transaction Amount,
\* KYC Verified, Account Age, Channel, Date & Time, Status, in that order.
C20_DownloadHeaderCustomerId ==
    [][DownloadHasForm(<<"Customer ID", "Transaction Amount", "KYC Verified",
                         "Account Age", "Channel", "Date & Time", "Status">>)]_vars

\* a file of a header line and at least two records has been downloaded
C20_Witness == download # <<>> /\ Len(download[1].lines) >= 3

\* ------------------------------------------------------------------------
\* The chat panel
\* ------------------------------------------------------------------------
MaxChats == 2

\* generateMockChatResponse(message)
GenerateMockChatResponse(message) ==
    LET lowerMessage == ToLowerCase(message)
        Has(word) == Includes(lowerMessage, word)
    IN IF Has(<<"f", "r", "a", "u", "d">>) \/ Has(<<"d", "e", "t", "e", "c", "t">>)
       THEN "Our fraud detection system uses a hybrid LSTM + Transformer model combined with 5 business rules. It analyzes factors like transaction amount, KYC status, account age, channel, and transaction timing to identify potential fraud."
       ELSE IF Has(<<"r", "u", "l", "e">>)
       THEN "We have 5 business rules: 1) High amount rule (>$10,000), 2) Unverified KYC + international, 3) New account + high amount, 4) Odd hours (midnight-6am), 5) Weekend high amount (>$15,000)."
       ELSE IF Has(<<"h", "o", "w">>) \/ Has(<<"w", "o", "r", "k">>)
       THEN "The system works by: 1) Receiving transaction data, 2) Preprocessing and feature engineering, 3) ML model prediction, 4) Business rules evaluation, 5) Risk score calculation (70% ML + 30% rules), 6) LLM explanation generation."
       ELSE "I'm here to help with fraud detection questions! You can ask about our detection model, business rules, risk scoring, or how to interpret transaction results."

\* addChatMessage(text, role); cause notes what the handler had seen when
\* it added the message
AddChatMessage(messages, text, role, cause) ==
    Append(messages, [text |-> text, role |-> role, cause |-> cause])

\* sendChatMessage() up to its first await.  The request body reads the
\* identifier transactionHistory, which no script of this repository
\* declares: where the page binds it to nothing the read throws inside the
\* try and the catch block answers; where the page binds it to a list the
\* request goes out.  What the page binds is settled at the first message.
SendChatMessage(text, binding) ==
    LET message == TrimText(text)
        c == chat.asked + 1
        shown == AddChatMessage(chat.messages, message, "user", "typed")
    IN /\ chat.binding \in {"unknown", binding}
       /\ IF message = <<>>
          THEN UNCHANGED chat
          ELSE /\ chat.asked < MaxChats
               /\ IF binding = "undeclared"
                  THEN chat' = [chat EXCEPT
                                  !.binding = binding,
                                  !.asked = c,
                                  !.messages = AddChatMessage(shown,
                                      GenerateMockChatResponse(message), "assistant",
                                      "threw")]
                  ELSE chat' = [chat EXCEPT
                                  !.binding = binding,
                                  !.asked = c,
                                  !.sent = @ + 1,
                                  !.messages = shown,
                                  !.pending = @ \cup {[id |-> c, message |-> message,
                                                       pc |-> "fetch"]}]
       /\ UNCHANGED <<scoreVars, analysisVars, liveStats, history, calls, started, finished,
                      checkBtn, resultDiv, requests, lastAlert, now, saves, lastSaved,
                      clears, download, tests, lastForm, console, storage, session, profile>>

\* await fetch(.../chat) settles: an OK response goes on to its body, a
\* response that is not OK and a rejection are answered by the mock
ChatFetchSettles(call, outcome) ==
    /\ call \in chat.pending
    /\ call.pc = "fetch"
    /\ chat' = IF outcome = "ok"
               THEN [chat EXCEPT !.pending = (@ \ {call}) \cup {[call EXCEPT !.pc = "json"]}]
               ELSE [chat EXCEPT
                       !.pending = @ \ {call},
                       !.messages = AddChatMessage(@, GenerateMockChatResponse(call.message),
                                                   "assistant", outcome)]
    /\ UNCHANGED <<scoreVars, analysisVars, liveStats, history, calls, started, finished,
                   checkBtn, resultDiv, requests, lastAlert, now, saves, lastSaved,
                   clears, download, tests, lastForm, console, storage, session, profile>>

\* await response.json() settles: data.response is shown, "undefined" when
\* the body has no such field; a body that does not parse is answered by
\* the mock in the catch block
ChatJsonSettles(call, outcome) ==
    /\ call \in chat.pending
    /\ call.pc = "json"
    /\ chat' = [chat EXCEPT
                  !.pending = @ \ {call},
                  !.messages =
                      IF outcome = "response"
                      THEN AddChatMessage(@, "the answer of the backend", "assistant", "ok")
                      ELSE IF outcome = "no response field"
                      THEN AddChatMessage(@, "undefined", "assistant", "ok")
                      ELSE AddChatMessage(@, GenerateMockChatResponse(call.message),
                                          "assistant", "ok, body rejected")]
    /\ UNCHANGED <<scoreVars, analysisVars, liveStats, history, calls, started, finished,
                   checkBtn, resultDiv, requests, lastAlert, now, saves, lastSaved,
                   clears, download, tests, lastForm, console, storage, session, profile>>

\* what is typed into #chatInput, and the calls settling
ChatNext ==
    \/ \E text \in {<<>>, <<" ", " ">>, <<" ", "F", "r", "a", "u", "d", "?", " ">>,
                     <<"r", "u", "l", "e", "s">>, <<"H", "o", "w", "?">>, <<"h", "i">>},
          binding \in {"undeclared", "list"} :
          SendChatMessage(text, binding)
    \/ \E call \in chat.pending, outcome \in {"ok", "not ok", "rejected"} :
          ChatFetchSettles(call, outcome)
    \/ \E call \in chat.pending, outcome \in {"response", "no response field", "rejected"} :
          ChatJsonSettles(call, outcome)

ChatSpec == Init /\ [][ChatNext]_vars

\* C24: sendChatMessage with a non-empty message appends the user message
\* and sends a POST /chat request; when the response is OK the backend's
\* response is appended as the assistant message; the mock response is used
\* only when the request fails or returns a status that is not OK; an empty
\* or whitespace-only message changes nothing.
C24_ChatAsksTheBackend ==
    [][/\ Len(chat'.messages) >= Len(chat.messages)
       /\ \A i \in (Len(chat.messages) + 1)..Len(chat'.messages) :
             LET m == chat'.messages[i]
             IN /\ m.role = "user" =>
                     /\ m.text # <<>>
                     /\ chat'.sent = chat.sent + 1
                     /\ Len(chat'.messages) = Len(chat.messages) + 1
                /\ m.role = "assistant" =>
                     /\ m.cause \in {"ok", "not ok", "rejected"}
                     /\ m.cause = "ok" <=>
                            m.text \in {"the answer of the backend", "undefined"}]_vars


\* ------------------------------------------------------------------------
\* Login, profile and logout: the user's keys of localStorage
\* ------------------------------------------------------------------------
\* localStorage.setItem(key, value)
SetItem(st, key, value) ==
    [k \in DOMAIN st \cup {key} |-> IF k = key THEN value ELSE st[k]]

\* localStorage.removeItem(key), for each key of keys
RemoveItems(st, keys) == [k \in DOMAIN st \ keys |-> st[k]]

\* showLoginLoading(): the loading animation is shown
ShowLoginLoading(page) == [page EXCEPT !.loading = TRUE]

\* the submit listener of #loginForm that takes a PIN of four digits or more
LoginSubmitLongPin(email, password, pin) ==
    /\ session' =
          IF email = <<>> \/ password = <<>> \/ pin = <<>>
          THEN [session EXCEPT !.last = <<[email |-> email, password |-> password,
                                          pin |-> pin]>>,
                               !.alert = "Please fill in all fields!"]
          ELSE IF ~(Len(pin) >= 4 /\ \A k \in DOMAIN pin : IsDigit(pin[k]))
          THEN [session EXCEPT !.last = <<[email |-> email, password |-> password,
                                          pin |-> pin]>>,
                               !.pinError = TRUE]
          ELSE [ShowLoginLoading(session) EXCEPT
                   !.last = <<[email |-> email, password |-> password, pin |-> pin]>>,
                   !.pinError = FALSE,
                   !.redirect = TRUE]
    /\ storage' =
          IF email = <<>> \/ password = <<>> \/ pin = <<>>
             \/ ~(Len(pin) >= 4 /\ \A k \in DOMAIN pin : IsDigit(pin[k]))
          THEN storage
          ELSE LET first == Split(email, "@")[1]
                   firstName == IF first = <<>> THEN <<"U", "s", "e", "r">> ELSE first
               IN SetItem(SetItem(SetItem(SetItem(SetItem(storage,
                      "userFirstName", firstName),
                      "userEmail", email),
                      "userMobile", <<"1", "2", "3", "4", "5", "6", "7", "8", "9", "0">>),
                      "userCountryCode", <<"+", "1">>),
                      "userLastName", <<"D", "e", "m", "o">>)
    /\ UNCHANGED <<scoreVars, analysisVars, liveStats, history, calls, started, finished,
                   checkBtn, resultDiv, requests, lastAlert, now, saves, lastSaved,
                   clears, download, tests, lastForm, console, chat, profile>>

\* the submit listener of #loginForm: both checks, then the demo login
LoginSubmit(email, password, pin) ==
    /\ session' =
          IF email = <<>> \/ password = <<>> \/ pin = <<>>
          THEN [session EXCEPT !.last = <<[email |-> email, password |-> password,
                                          pin |-> pin]>>,
                               !.alert = "Please fill in all fields!"]
          ELSE IF ~(Len(pin) = 4 /\ \A k \in DOMAIN pin : IsDigit(pin[k]))
          THEN [session EXCEPT !.last = <<[email |-> email, password |-> password,
                                          pin |-> pin]>>,
                               !.pinError = TRUE]
          ELSE [ShowLoginLoading(session) EXCEPT
                   !.last = <<[email |-> email, password |-> password, pin |-> pin]>>,
                   !.pinError = FALSE,
                   !.redirect = TRUE]
    /\ storage' =
          IF email = <<>> \/ password = <<>> \/ pin = <<>>
             \/ ~(Len(pin) = 4 /\ \A k \in DOMAIN pin : IsDigit(pin[k]))
          THEN storage
          ELSE LET first == Split(email, "@")[1]
                   firstName == IF first = <<>> THEN <<"U", "s", "e", "r">> ELSE first
               IN SetItem(SetItem(SetItem(SetItem(SetItem(storage,
                      "userFirstName", firstName),
                      "userEmail", email),
                      "userMobile", <<"1", "2", "3", "4", "5", "6", "7", "8", "9", "0">>),
                      "userCountryCode", <<"+", "1">>),
                      "userLastName", <<"D", "e", "m", "o">>)
    /\ UNCHANGED <<scoreVars, analysisVars, liveStats, history, calls, started, finished,
                   checkBtn, resultDiv, requests, lastAlert, now, saves, lastSaved,
                   clears, download, tests, lastForm, console, chat, profile>>

\* mobile.replace(/^\+?\d{1,4}\s?/, ""): a "+" if there is one, then up to
\* four digits, then one white space if there is one, are taken off the
\* front; a text that does not start that way stays as it is
StripLeadingCode(mobile) ==
    LET t == IF mobile # <<>> /\ Head(mobile) = "+" THEN Tail(mobile) ELSE mobile
        k == Min2(4, Len(DigitPrefix(t)))
        rest == SubSeq(t, k + 1, Len(t))
    IN IF k = 0 THEN mobile
       ELSE IF rest # <<>> /\ Head(rest) \in WhiteSpace THEN Tail(rest)
       ELSE rest

\* mobile.match(/^(\+\d{1,4})\s*(\d{5,})$/): the longest code of one to
\* four digits after "+" that leaves, after white space, five or more
\* digits up to the end
MatchMobile(mobile) ==
    LET t == IF mobile = <<>> THEN <<>> ELSE Tail(mobile)
        Number(k) == TrimStart(SubSeq(t, k + 1, Len(t)))
        codes == {k \in 1..Min2(4, Len(DigitPrefix(t))) :
                     /\ Len(Number(k)) >= 5
                     /\ DigitPrefix(Number(k)) = Number(k)}
        longest == CHOOSE k \in codes : \A j \in codes : j <= k
    IN IF mobile # <<>> /\ Head(mobile) = "+" /\ codes # {}
       THEN [matched |-> TRUE, code |-> <<"+">> \o SubSeq(t, 1, longest),
             number |-> Number(longest)]
       ELSE [matched |-> FALSE, code |-> <<>>, number |-> <<>>]

\* loadProfileFormData(), userEmail the e-mail of auth.currentUser if there
\* is one: the inputs of the form are filled from localStorage, each
\* localStorage.getItem(key) || otherwise
LoadProfileFormData(userEmail) ==
    LET GetItemOr(st, key, otherwise) ==
            IF key \in DOMAIN st /\ st[key] # <<>> THEN st[key] ELSE otherwise
        firstName == GetItemOr(storage, "userFirstName", <<"U", "s", "e", "r">>)
        lastName == GetItemOr(storage, "userLastName", <<>>)
        mobile == GetItemOr(storage, "userMobile", <<>>)
        countryCode == GetItemOr(storage, "userCountryCode", <<"+", "9", "1">>)
        photoData == GetItemOr(storage, "userProfilePhoto", <<>>)
        match == MatchMobile(mobile)
    IN /\ profile' =
             [loaded |-> TRUE,
              entered |-> profile.entered,
              fullName |-> TrimText(firstName \o <<" ">> \o lastName),
              email |-> IF userEmail # <<>> THEN userEmail
                        ELSE GetItemOr(storage, "userEmail", <<"u", "s", "e", "r", "@", "e", "x", "a", "m", "p", "l", "e", ".", "c", "o", "m">>),
              countryCode |-> IF match.matched THEN match.code ELSE countryCode,
              mobile |-> IF match.matched THEN match.number ELSE mobile,
              dob |-> GetItemOr(storage, "userDOB", <<>>),
              gender |-> GetItemOr(storage, "userGender", <<>>),
              address |-> GetItemOr(storage, "userAddress", <<>>),
              photoShown |-> photoData # <<>>,
              photoSrc |-> photoData]
       /\ UNCHANGED <<scoreVars, analysisVars, liveStats, calls, started, finished,
                      checkBtn, resultDiv, requests, lastAlert, now, saves, lastSaved,
                      clears, download, tests, lastForm, console, chat, history, storage, session>>

\* saveProfileEdit() with the given values in the inputs of the form: the
\* keys are written and the page reloads
SaveProfileEdit(form) ==
    LET fullName == TrimText(form.fullName)
        typed == TrimText(form.mobile)
        startsWithCode == /\ Len(typed) >= Len(form.countryCode)
                          /\ SubSeq(typed, 1, Len(form.countryCode)) = form.countryCode
        mobile == IF typed # <<>> /\ ~startsWithCode
                  THEN form.countryCode \o <<" ">> \o StripLeadingCode(typed)
                  ELSE typed
        photoData == IF form.photoShown THEN form.photoSrc ELSE <<>>
        parts == Split(fullName, " ")
        firstName == IF Includes(fullName, <<" ">>) THEN parts[1] ELSE fullName
        lastName == IF Includes(fullName, <<" ">>) THEN Join(Tail(parts), " ") ELSE <<>>
        written == SetItem(SetItem(SetItem(SetItem(SetItem(SetItem(SetItem(SetItem(storage,
                       "userFirstName", firstName),
                       "userLastName", lastName),
                       "userEmail", TrimText(form.email)),
                       "userMobile", mobile),
                       "userCountryCode", form.countryCode),
                       "userDOB", form.dob),
                       "userGender", form.gender),
                       "userAddress", TrimText(form.address))
    IN /\ storage' = IF photoData # <<>> THEN SetItem(written, "userProfilePhoto", photoData)
                     ELSE RemoveItems(written, {"userProfilePhoto"})
       /\ profile' = [loaded |-> FALSE, entered |-> <<form>>]
       /\ UNCHANGED <<scoreVars, analysisVars, liveStats, calls, started, finished,
                      checkBtn, resultDiv, requests, lastAlert, now, saves, lastSaved,
                      clears, download, tests, lastForm, console, chat, history, session>>

\* confirmLogout(): auth.signOut() is called and its promise awaited
ConfirmLogout ==
    /\ session.signOut # "pending"
    /\ session' = [session EXCEPT !.signOut = "pending"]
    /\ UNCHANGED <<scoreVars, analysisVars, liveStats, calls, started, finished,
                   checkBtn, resultDiv, requests, lastAlert, now, saves, lastSaved,
                   clears, download, tests, lastForm, console, chat, history, storage, profile>>

\* the promise of auth.signOut() settles: then() removes five keys, catch()
\* clears localStorage, the stored history with it; both leave the page
SignOutSettles(outcome) ==
    /\ session.signOut = "pending"
    /\ session' = [session EXCEPT !.signOut = outcome, !.location = "../index.html"]
    /\ IF outcome = "signed out"
       THEN /\ storage' = RemoveItems(storage, {"userFirstName", "userEmail", "userMobile",
                                                "userCountryCode", "userLastName"})
            /\ UNCHANGED history
       ELSE /\ storage' = [key \in {} |-> <<>>]
            /\ history' = <<>>
    /\ UNCHANGED <<scoreVars, analysisVars, liveStats, calls, started, finished,
                   checkBtn, resultDiv, requests, lastAlert, now, saves, lastSaved,
                   clears, download, tests, lastForm, console, chat, profile>>

\* the values in the inputs of the profile form when it is saved
ProfileForms ==
    [fullName : {<<"A", "m", "y">>, <<"A", "m", "y", " ", "L", "e", "e">>},
     email : {<<"a", "m", "y", "@", "x", ".", "i", "o">>},
     countryCode : {<<"+", "9", "1">>, <<"+", "1">>, <<"+", "9", "7", "1">>},
     mobile : {<<>>, <<"1", "2", "3", "4", "5">>, <<"9", "8", "7", "6", "5", "4", "3", "2", "1", "0">>, <<"+", "9", "1", " ", "9", "8", "7", "6", "5", "4", "3", "2", "1", "0">>, <<" ", "9", "8", "7", "6", "5", " ">>},
     dob : {<<"2", "0", "0", "0", "-", "0", "1", "-", "3", "1">>},
     gender : {<<>>},
     address : {<<"1", " ", "M", "a", "i", "n", " ", "S", "t">>},
     photoShown : BOOLEAN,
     photoSrc : {<<"d", "a", "t", "a", ":", "x">>}]

\* the profile form on the dashboard: saved, reloaded, opened again
ProfileSpec ==
    /\ Init
    /\ [][\/ \E form \in ProfileForms : SaveProfileEdit(form)
          \/ \E userEmail \in {<<>>, <<"u", "@", "x", ".", "i", "o">>} : LoadProfileFormData(userEmail)]_vars

\* logging in, editing the profile and logging out
AccountSpec ==
    /\ Init
    /\ [][\/ \E email \in {<<>>, <<"a", "m", "y", "@", "x", ".", "i", "o">>, <<"@", "x">>},
               password \in {<<>>, <<"p", "w">>},
               pin \in {<<>>, <<"1", "2", "3", "4">>, <<"1", "2", "3">>, <<"1", "2", "3", "4", "5">>, <<"1", "2", "a", "4">>, <<"1", "2", "3", "4", " ">>} :
               LoginSubmit(email, password, pin)
          \/ \E form \in {f \in ProfileForms :
                              /\ f.fullName = <<"A", "m", "y", " ", "L", "e", "e">>
                              /\ f.countryCode = <<"+", "9", "1">>
                              /\ f.mobile = <<"1", "2", "3", "4", "5">>} :
               SaveProfileEdit(form)
          \/ ConfirmLogout
          \/ \E outcome \in {"signed out", "failed"} : SignOutSettles(outcome)]_vars

\* ---- the pairing of two columns' values ----------------------------------
\* the rows of the dataset whose cell of the column parses as a number, in
\* the order of the dataset
NumericRows(col) ==
    LET data == Dataset.data
        rowNumbers == [i \in DOMAIN data |-> i]
    IN SelectSeq(rowNumbers, LAMBDA i : ~ParseFloatText(data[i][col]).nan)

\* C21: when the correlation of two numeric columns is computed from sums,
\* a cell that is missing or not a number is left out and the pairing is not
\* shifted by that: the k-th x and the k-th y that meet in the sums come
\* from one and the same row of the dataset, also when the two columns have
\* their gaps in different rows.
C21_PairsFromOneRow ==
    (upload.phase = "analysed" /\ Report.correlation.table) =>
        \A c1, c2 \in {Report.correlation.columns[i] :
                            i \in DOMAIN Report.correlation.columns} :
            (Len(NumericRows(c1)) = Len(NumericRows(c2))) =>
                \A k \in DOMAIN NumericRows(c1) : NumericRows(c1)[k] = NumericRows(c2)[k]

\* ---- an account age of 0 days --------------------------------------------
\* C22: a check of a form with account age 0 and every other field valid
\* passes validation and is scored: no alert is shown for it and the
\* /predict request of the check is sent.
C22_ZeroAgeIsChecked ==
    [][(/\ lastForm' # lastForm
        /\ lastForm'[1].accountAge = Field(0)
        /\ \E f \in ValidForms : lastForm'[1] = [f EXCEPT !.accountAge = Field(0)])
          => /\ requests' = requests + 1
             /\ started' = started + 1
             /\ lastAlert' = lastAlert]_vars

\* ---- the data types of the column profiles -------------------------------
\* C23, as claimed: every column profile of displayColumnAnalysis has a data
\* type that is one of Numeric, Date or Text, for every column of every
\* dataset, a column whose values are all empty included.
C23_TypeIsNumericDateOrText ==
    upload.phase = "analysed" =>
        \A k \in DOMAIN Report.columnInfo :
            Report.columnInfo[k].dataType \in {"Numeric", "Date", "Text"}

\* C23, amended: every column profile of displayColumnAnalysis has a data
\* type that is one of Numeric, Date, Text or Unknown, and it is Unknown
\* exactly for a column that has no non-empty value (a dataset without rows
\* included).
C23_TypeIsUnknownForEmptyColumn ==
    upload.phase = "analysed" =>
        \A k \in DOMAIN Report.columnInfo :
            LET info == Report.columnInfo[k]
            IN /\ info.dataType \in {"Numeric", "Date", "Text", "Unknown"}
               /\ info.dataType = "Unknown" <=> NonEmptyValues(info.header) = <<>>

\* C23 witness: an analysed file of at least one row with a column of empty
\* cells only, typed Unknown, beside a column typed Numeric
C23_Witness ==
    /\ upload.phase = "analysed"
    /\ Len(Dataset.data) > 0
    /\ \E k, m \in DOMAIN Report.columnInfo :
          /\ Report.columnInfo[k].dataType = "Unknown"
          /\ Report.columnInfo[m].dataType = "Numeric"

\* ---- the login form -------------------------------------------------------
\* four characters, each a decimal digit
FourDigits(pin) ==
    /\ Len(pin) = 4
    /\ \A k \in DOMAIN pin : pin[k] \in {"0", "1", "2", "3", "4", "5", "6", "7", "8", "9"}

C29_ProfileRoundTrip ==
    (profile.loaded /\ profile.entered # <<>>) =>
        LET entered == profile.entered[1]
        IN (Len(entered.mobile) >= 5 /\ DigitPrefix(entered.mobile) = entered.mobile) =>
               /\ storage["userMobile"] = entered.countryCode \o <<" ">> \o entered.mobile
               /\ profile.countryCode = entered.countryCode
               /\ profile.mobile = entered.mobile

\* ---- logging out ----------------------------------------------------------
\* C30: when confirmLogout has completed, after a sign-out that succeeded
\* as after one that failed, none of the profile fields that login or
\* saveProfileEdit wrote is left in local storage.
C30_LogoutClearsProfile ==
    [][(session.signOut = "pending" /\ session'.signOut # "pending") =>
          DOMAIN storage' \cap {"userFirstName", "userLastName", "userEmail", "userMobile",
                                "userCountryCode", "userDOB", "userGender", "userAddress",
                                "userProfilePhoto"} = {}]_vars

\* ---- one record for each check -------------------------------------------
\* C26: each checkTransaction call that passes validation adds exactly one
\* record to transactionHistory, whatever the /predict call comes to and
\* also when a step that runs after the save of the success path throws:
\* the fallback path never saves a second record for the same check.
C26_OneRecordForEachCheck ==
    \A c \in finished : Cardinality(RecordsOf(history, c)) = 1

\* ---- the button while checks wait -----------------------------------------
\* C27: the Check Transaction button is disabled whenever at least one
\* checkTransaction call waits for the /predict response and enabled
\* whenever none does: with two overlapping calls it is not enabled again
\* until both have finished.
C27_ButtonDisabledWhileWaiting ==
    checkBtn.disabled <=> (DOMAIN calls # {})

\* ---- fraud only with a rule ------------------------------------------------
\* C28: generateEnhancedMockPrediction returns is_fraud = true only when at
\* least one rule was triggered: an input that meets none of the four rule
\* conditions comes back legitimate, whatever the random draws.
C28_FraudOnlyWithRule ==
    scored =>
      /\ verdict.is_fraud => verdict.rules_triggered # <<>>
      /\ (/\ ~Gt(scoreInput.transaction_amount, 10000)
          /\ ~Lt(scoreInput.account_age_days, 30)
          /\ scoreInput.kyc_verified
          /\ ~(scoreInput.channel = "mobile" /\ Gt(scoreInput.transaction_amount, 5000)))
            => ~verdict.is_fraud

\* C28 witness: an input that meets no rule condition was scored under the
\* highest baseline: the risk score is at its ceiling of 0.95 and the
\* verdict is legitimate
C28_Witness ==
    /\ scored
    /\ verdict.rules_triggered = <<>>
    /\ verdict.risk_score = 9500
    /\ ~verdict.is_fraud

====
